---- MODULE Spec2Model ----
(***************************************************************************)
(* Model of the action-dispatch protocol and tool-execution subsystem of   *)
(* Gemini Coder: the tool registry (tools/base.py), the concrete tools     *)
(* (tools/*.py), the model client (core/ai_client.py) and the two          *)
(* dispatchers (gemini_coder.py one-shot, core/interactive.py interactive).*)
(*                                                                         *)
(* Python strings are modelled as sequences of one-character strings so    *)
(* that `in`, str.replace and str.count are computed, not assumed.  A path *)
(* is the sequence of its components ("d/a.txt" is <<"d", "a.txt">>).      *)
(* Python values that cross the JSON boundary carry their type in a tag:   *)
(* [t |-> "str", v |-> <<...>>], [t |-> "int", v |-> 5], ...               *)
(***************************************************************************)
EXTENDS Integers, Sequences, FiniteSets, TLC

VARIABLES
    fs,         \* the filesystem: files (path -> exists, content) and dirs
    mode,       \* "oneshot" (run_single_command) or "interactive"
    pc,         \* "ready" | "responded" | "exited"
    turns,      \* number of requests processed so far
    raw,        \* what the model call yielded for the last request
    response,   \* what GeminiClient.process_request returned
    handler,    \* the handler the dispatcher ran for the last response
    answer,     \* what the user typed at the confirmation prompt ("-" = no prompt)
    calls,      \* registry calls made by the last handler, in order
    results,    \* the ToolResults those calls returned, in order
    trace,      \* what the last handler did, in order: lines printed, prompts
                \* shown, registry calls made
    spawned,    \* subprocesses spawned by the last handler, in order
    exc,        \* exception that left the dispatcher ("None" if none)
    fsBefore,   \* the filesystem when the last handler started
    registry,   \* ToolRegistry._tools, in insertion order
    exitStatus, \* exit status of the process once pc = "exited"
    conversation_history,  \* ContextManager.conversation_history: the turns held
                           \* in memory, each named by its number
    memory_file,           \* the turns recorded in the memory file, in order
    recorded,   \* number of add_conversation_entry calls made so far, in
                \* this process and in those before it
    registered  \* the tools passed to ToolRegistry.register so far, in order

vars == <<fs, mode, pc, turns, raw, response, handler, answer, calls, results,
          trace, spawned, exc, fsBefore, registry, exitStatus,
          conversation_history, memory_file, recorded, registered>>

----------------------------------------------------------------------------
(* Bounds *)

\* Requests one run processes: one-shot mode handles exactly one, the
\* interactive loop is cut after this many
MaxTurns == 1

\* Entries in the tools list of a MULTI_TOOL directive
MaxTools == 2

\* Items in the edits list of a multi_edit call
MaxEdits == 2

\* Conversation turns recorded over the life of one memory file
MaxRecorded == 102

\* Calls of ToolRegistry.register made after the tools package registered
\* its own tools
MaxRegistered == 4

----------------------------------------------------------------------------
(* Python str operations on sequences of characters *)

\* Python `sub in s`
Contains(sub, s) ==
    \E i \in 0..(Len(s) - Len(sub)) : SubSeq(s, i + 1, i + Len(sub)) = sub

StartsWith(s, sub) ==
    Len(sub) <= Len(s) /\ SubSeq(s, 1, Len(sub)) = sub

\* Python s.count(sub): non-overlapping occurrences, len(s)+1 for the empty sub
RECURSIVE Count(_, _)
Count(s, sub) ==
    IF sub = <<>> THEN Len(s) + 1
    ELSE IF Len(s) < Len(sub) THEN 0
    ELSE IF StartsWith(s, sub)
         THEN 1 + Count(SubSeq(s, Len(sub) + 1, Len(s)), sub)
         ELSE Count(Tail(s), sub)

\* Python s.replace(old, new): every non-overlapping occurrence, left to right
RECURSIVE Replace(_, _, _)
Replace(s, old, new) ==
    IF old = <<>>
    THEN IF s = <<>> THEN new ELSE new \o <<Head(s)>> \o Replace(Tail(s), old, new)
    ELSE IF Len(s) < Len(old) THEN s
    ELSE IF StartsWith(s, old)
         THEN new \o Replace(SubSeq(s, Len(old) + 1, Len(s)), old, new)
         ELSE <<Head(s)>> \o Replace(Tail(s), old, new)

----------------------------------------------------------------------------
(* Tagged Python values *)

PyStr(s) == [t |-> "str", v |-> s]
PyInt(n) == [t |-> "int", v |-> n]
PyList(l) == [t |-> "list", v |-> l]
PyBool(b) == [t |-> "bool", v |-> b]
PyDict(d) == [t |-> "dict", v |-> d]
PyNone == [t |-> "none"]

\* Python truthiness of a tagged value (`not x` is ~Truthy(x))
Truthy(x) ==
    CASE x.t = "none" -> FALSE
      [] x.t = "str"  -> x.v # <<>>
      [] x.t = "list" -> x.v # <<>>
      [] x.t = "int"  -> x.v # 0
      [] x.t = "bool" -> x.v
      [] x.t = "dict" -> DOMAIN x.v # {}
      [] OTHER        -> TRUE

\* Python x == "literal" for a tagged value
StrEq(x, literal) == x.t = "str" /\ x.v = literal

\* dict.get(key, default) on a function with string keys
Get(d, key, default) == IF key \in DOMAIN d THEN d[key] ELSE default

----------------------------------------------------------------------------
(* Filesystem *)

NoFile == [exists |-> FALSE, content |-> <<>>]
File(c) == [exists |-> TRUE, content |-> c]

\* The working files the model distinguishes: a bare file name and two files
\* in a directory
FilePaths == { <<"a.txt">>, <<"d", "a.txt">>, <<"d", "b.py">> }

\* The values datetime.now().strftime("%Y%m%d_%H%M%S") takes in the model
Timestamps == { "t1", "t2" }

\* The copies BackupTool can create under the default backup directory
BackupPaths == { <<".backups", ts, n>> : ts \in Timestamps, n \in {"a.txt", "b.py"} }

AllPaths == FilePaths \cup BackupPaths

\* Path(p).name
Basename(p) == p[Len(p)]

\* os.path.dirname
Dirname(p) == SubSeq(p, 1, Len(p) - 1)

\* os.path.exists
PathExists(f, p) ==
    \/ p \in DOMAIN f.files /\ f.files[p].exists
    \/ p \in f.dirs

\* os.path.isfile
IsFile(f, p) == p \in AllPaths /\ f.files[p].exists

\* os.makedirs(d, exist_ok=True): every prefix of d becomes a directory
MakeDirs(f, d) ==
    [f EXCEPT !.dirs = @ \cup { SubSeq(d, 1, k) : k \in 1..Len(d) }]

\* open(p, 'w').write(c)
WriteFile(f, p, c) == [f EXCEPT !.files[p] = File(c)]

----------------------------------------------------------------------------
(* tools/base.py: ToolResult *)

NoError == [kind |-> "None", arg |-> ""]
Error(kind, arg) == [kind |-> kind, arg |-> arg]

NoContent == [kind |-> "none"]
NoMeta == [kind |-> "none"]

ToolResult(success, content, error, metadata) ==
    [success |-> success, content |-> content, error |-> error, metadata |-> metadata]

Fail(error) == ToolResult(FALSE, NoContent, error, NoMeta)

\* What one call of Tool.execute produces: either it raises, or it returns a
\* ToolResult; either way it may have changed the filesystem and spawned
\* subprocesses before.
Returned(r, f, sp) == [raised |-> "None", result |-> r, fs |-> f, spawned |-> sp]
Raised(e, f, sp) == [raised |-> e, result |-> Fail(NoError), fs |-> f, spawned |-> sp]

----------------------------------------------------------------------------
(* The environment of one tool call: what the operating system answers.    *)
(*   rc       exit status of a spawned subprocess                          *)
(*   timeout  the subprocess outlives the timeout (subprocess.TimeoutExpired)*)
(*   ioerr    opening a file for writing raises (e.g. PermissionError)     *)
(*   rg       whether the ripgrep binary is installed                      *)
(*   now      what datetime.now() formats to, to the second                *)
(*   scan     the order in which os.scandir yields the entries it lists,   *)
(*            which the operating system chooses                           *)

Env(rc, timeout, ioerr, rg, now) ==
    [rc |-> rc, timeout |-> timeout, ioerr |-> ioerr, rg |-> rg, now |-> now,
     scan |-> IF now = "t1" THEN "forward" ELSE "backward"]

Envs == { Env(0, FALSE, FALSE, TRUE, "t1"), Env(1, FALSE, FALSE, FALSE, "t2"),
          Env(2, FALSE, FALSE, TRUE, "t1"), Env(0, TRUE, FALSE, FALSE, "t1"),
          Env(0, FALSE, TRUE, TRUE, "t2") }

\* subprocess.run(cmd, ...) as recorded in `spawned`
Proc(prog, arg) == [prog |-> prog, arg |-> arg]

----------------------------------------------------------------------------
(* tools/file_tools.py *)


\* ReadTool.execute(file_path)
ReadTool_execute(kw, f, env) ==
    LET file_path == kw["file_path"] IN
    IF file_path.t # "str" \/ ~PathExists(f, file_path.v)
    THEN Returned(Fail(Error("Arquivo nao encontrado", "file_path")), f, <<>>)
    ELSE IF ~IsFile(f, file_path.v)              \* a directory: open() raises
    THEN Returned(Fail(Error("Erro ao ler arquivo", "file_path")), f, <<>>)
    ELSE Returned(ToolResult(TRUE,
                    [kind |-> "text", text |-> f.files[file_path.v].content],
                    NoError,
                    [kind |-> "read", file_path |-> file_path.v,
                     size |-> Len(f.files[file_path.v].content)]), f, <<>>)

\* WriteTool.execute(file_path, content)
WriteTool_execute(kw, f, env) ==
    LET file_path == kw["file_path"]
        content == kw["content"]
        err == Fail(Error("Erro ao escrever arquivo", "file_path"))
    IN
    IF file_path.t # "str" \/ file_path.v \notin AllPaths
    THEN Returned(err, f, <<>>)
    ELSE IF Dirname(file_path.v) = <<>>
    THEN Returned(err, f, <<>>)                 \* os.makedirs('') raises FileNotFoundError
    ELSE LET f1 == MakeDirs(f, Dirname(file_path.v)) IN
         IF env.ioerr
         THEN Returned(err, f1, <<>>)           \* open(file_path, 'w') raises
         ELSE IF content.t # "str"
         THEN Returned(err, WriteFile(f1, file_path.v, <<>>), <<>>)  \* f.write raises after truncation
         ELSE Returned(ToolResult(TRUE,
                         [kind |-> "text", text |-> <<"o", "k">>],
                         NoError,
                         [kind |-> "write", file_path |-> file_path.v,
                          size |-> Len(content.v)]),
                       WriteFile(f1, file_path.v, content.v), <<>>)

\* Variant of EditTool.execute: the occurrences are counted after the
\* substitution
EditTool_execute_late(kw, f, env) ==
    LET file_path == kw["file_path"]
        old_text == kw["old_text"]
        new_text == kw["new_text"]
        err == Fail(Error("Erro ao editar arquivo", "file_path"))
    IN
    IF file_path.t # "str" \/ ~PathExists(f, file_path.v)
    THEN Returned(Fail(Error("Arquivo nao encontrado", "file_path")), f, <<>>)
    ELSE IF ~IsFile(f, file_path.v)              \* a directory: open() raises
    THEN Returned(err, f, <<>>)
    ELSE LET content == f.files[file_path.v].content IN
         IF old_text.t # "str"
         THEN Returned(err, f, <<>>)            \* `old_text not in content` raises TypeError
         ELSE IF ~Contains(old_text.v, content)
         THEN Returned(Fail(Error("Texto nao encontrado no arquivo", "old_text")), f, <<>>)
         ELSE IF new_text.t # "str"
         THEN Returned(err, f, <<>>)            \* content.replace raises TypeError
         ELSE IF env.ioerr
         THEN Returned(err, f, <<>>)
         ELSE Returned(ToolResult(TRUE,
                         [kind |-> "text", text |-> <<"o", "k">>],
                         NoError,
                         [kind |-> "edit", file_path |-> file_path.v,
                          replacements |-> Count(Replace(content, old_text.v, new_text.v), old_text.v)]),
                       WriteFile(f, file_path.v, Replace(content, old_text.v, new_text.v)),
                       <<>>)

\* Variant of EditTool.execute: a missing file is left behind empty
EditTool_execute_touch(kw, f, env) ==
    LET file_path == kw["file_path"]
        old_text == kw["old_text"]
        new_text == kw["new_text"]
        err == Fail(Error("Erro ao editar arquivo", "file_path"))
    IN
    IF file_path.t # "str" \/ ~PathExists(f, file_path.v)
    THEN Returned(Fail(Error("Arquivo nao encontrado", "file_path")),
                  IF file_path.t = "str" /\ file_path.v \in AllPaths
                  THEN WriteFile(f, file_path.v, <<>>) ELSE f,
                  <<>>)
    ELSE IF ~IsFile(f, file_path.v)              \* a directory: open() raises
    THEN Returned(err, f, <<>>)
    ELSE LET content == f.files[file_path.v].content IN
         IF old_text.t # "str"
         THEN Returned(err, f, <<>>)            \* `old_text not in content` raises TypeError
         ELSE IF ~Contains(old_text.v, content)
         THEN Returned(Fail(Error("Texto nao encontrado no arquivo", "old_text")), f, <<>>)
         ELSE IF new_text.t # "str"
         THEN Returned(err, f, <<>>)            \* content.replace raises TypeError
         ELSE IF env.ioerr
         THEN Returned(err, f, <<>>)
         ELSE Returned(ToolResult(TRUE,
                         [kind |-> "text", text |-> <<"o", "k">>],
                         NoError,
                         [kind |-> "edit", file_path |-> file_path.v,
                          replacements |-> Count(content, old_text.v)]),
                       WriteFile(f, file_path.v, Replace(content, old_text.v, new_text.v)),
                       <<>>)

\* EditTool.execute(file_path, old_text, new_text)
EditTool_execute(kw, f, env) ==
    LET file_path == kw["file_path"]
        old_text == kw["old_text"]
        new_text == kw["new_text"]
        err == Fail(Error("Erro ao editar arquivo", "file_path"))
    IN
    IF file_path.t # "str" \/ ~PathExists(f, file_path.v)
    THEN Returned(Fail(Error("Arquivo nao encontrado", "file_path")), f, <<>>)
    ELSE IF ~IsFile(f, file_path.v)              \* a directory: open() raises
    THEN Returned(err, f, <<>>)
    ELSE LET content == f.files[file_path.v].content IN
         IF old_text.t # "str"
         THEN Returned(err, f, <<>>)            \* `old_text not in content` raises TypeError
         ELSE IF ~Contains(old_text.v, content)
         THEN Returned(Fail(Error("Texto nao encontrado no arquivo", "old_text")), f, <<>>)
         ELSE IF new_text.t # "str"
         THEN Returned(err, f, <<>>)            \* content.replace raises TypeError
         ELSE IF env.ioerr
         THEN Returned(err, f, <<>>)
         ELSE Returned(ToolResult(TRUE,
                         [kind |-> "text", text |-> <<"o", "k">>],
                         NoError,
                         [kind |-> "edit", file_path |-> file_path.v,
                          replacements |-> Count(content, old_text.v)]),
                       WriteFile(f, file_path.v, Replace(content, old_text.v, new_text.v)),
                       <<>>)

\* The listing order sort() produces for the model's working files
\* ("a.txt" < "d/a.txt" < "d/b.py")
SortedFilePaths == << <<"a.txt">>, <<"d", "a.txt">>, <<"d", "b.py">> >>

\* fnmatch of a path against a glob pattern, for the patterns the model uses
GlobMatches(pattern, recursive, p) ==
    CASE pattern = <<"*">>        -> Len(p) = 1
      [] pattern = <<"*.txt">>    -> Len(p) = 1 /\ p[1] = "a.txt"
      [] pattern = <<"d", "*">>   -> Len(p) = 2 /\ p[1] = "d"
      [] pattern = <<"**", "*">>  -> recursive \/ Len(p) = 2
      [] OTHER                    -> p = pattern

\* The characters of a path component
Spell(name) ==
    CASE name = "a.txt" -> <<"a", ".", "t", "x", "t">>
      [] name = "b.py"  -> <<"b", ".", "p", "y">>
      [] name = "d"     -> <<"d">>

\* The str of a path: its components joined by "/"
RECURSIVE PathText(_)
PathText(p) ==
    IF Len(p) = 1 THEN Spell(p[1])
    ELSE PathText(SubSeq(p, 1, Len(p) - 1)) \o <<"/">> \o Spell(p[Len(p)])

\* ord() of the characters of the working paths
Ord(c) ==
    CASE c = "." -> 46  [] c = "/" -> 47  [] c = "a" -> 97  [] c = "b" -> 98
      [] c = "d" -> 100 [] c = "p" -> 112 [] c = "t" -> 116 [] c = "x" -> 120
      [] c = "y" -> 121

\* Python's s < t on two str: the first differing character decides, a
\* proper prefix is smaller
RECURSIVE StrLess(_, _)
StrLess(s, t) ==
    IF t = <<>> THEN FALSE
    ELSE IF s = <<>> THEN TRUE
    ELSE IF Head(s) # Head(t) THEN Ord(Head(s)) < Ord(Head(t))
    ELSE StrLess(Tail(s), Tail(t))

\* list.sort() on a list of path strings
RECURSIVE SortPaths(_)
SortPaths(l) ==
    IF l = <<>> THEN <<>>
    ELSE LET rest == SortPaths(Tail(l))
             below == SelectSeq(rest, LAMBDA q : ~StrLess(PathText(Head(l)), PathText(q)))
             above == SelectSeq(rest, LAMBDA q : StrLess(PathText(Head(l)), PathText(q)))
         IN below \o <<Head(l)>> \o above

\* The entries glob.glob walks over, files and directories, in the order
\* the directory scans yield them
Walk(env) ==
    IF env.scan = "forward"
    THEN << <<"a.txt">>, <<"d">>, <<"d", "a.txt">>, <<"d", "b.py">> >>
    ELSE << <<"d">>, <<"d", "b.py">>, <<"d", "a.txt">>, <<"a.txt">> >>

\* glob.glob(pattern, recursive=...): the entries that exist and match
GlobGlob(pattern, recursive, f, env) ==
    SelectSeq(Walk(env),
              LAMBDA p : PathExists(f, p) /\ GlobMatches(pattern, recursive, p))

\* GlobTool.execute without its files.sort()
GlobTool_execute_unsorted(kw, f, env) ==
    LET pattern == kw["pattern"]
        recursive == Get(kw, "recursive", PyBool(TRUE))
    IN
    IF pattern.t # "str"
    THEN Returned(Fail(Error("Erro ao buscar arquivos", "pattern")), f, <<>>)
    ELSE LET found == GlobGlob(pattern.v, Truthy(recursive), f, env)
             files == SelectSeq(found, LAMBDA p : IsFile(f, p))
         IN Returned(ToolResult(TRUE,
                       [kind |-> "list", items |-> files],
                       NoError,
                       [kind |-> "glob", count |-> Len(files)]), f, <<>>)

\* GlobTool.execute(pattern, recursive=True)
GlobTool_execute(kw, f, env) ==
    LET pattern == kw["pattern"]
        recursive == Get(kw, "recursive", PyBool(TRUE))
    IN
    IF pattern.t # "str"
    THEN Returned(Fail(Error("Erro ao buscar arquivos", "pattern")), f, <<>>)
    ELSE LET found == GlobGlob(pattern.v, Truthy(recursive), f, env)
             files == SortPaths(SelectSeq(found, LAMBDA p : IsFile(f, p)))
         IN Returned(ToolResult(TRUE,
                       [kind |-> "list", items |-> files],
                       NoError,
                       [kind |-> "glob", count |-> Len(files)]), f, <<>>)

----------------------------------------------------------------------------
(* tools/shell_tools.py *)

\* The denylist of BashTool.execute
DangerousPatterns ==
    { <<"r", "m", " ", "-", "r", "f", " ", "/">>, <<"r", "m", " ", "-", "r", "f", " ", "*">>, <<"f", "o", "r", "m", "a", "t">>, <<"d", "e", "l", " ", "/", "f", " ", "/", "s", " ", "/", "q">> }

\* Variant of IsDangerous: the command is tested for starting with a
\* denylisted text instead of containing one
IsDangerous_prefix(command) == \E dangerous \in DangerousPatterns : StartsWith(command, dangerous)

\* any(dangerous in command for dangerous in [...])
IsDangerous(command) == \E dangerous \in DangerousPatterns : Contains(dangerous, command)

\* What the shell does to the filesystem when it runs the command: a
\* recursive forced remove deletes every file, anything else the model uses
\* leaves the files alone.
ShellEffect(command, f) ==
    IF Contains(<<"r", "m", " ", "-", "r", "f">>, command)
    THEN [f EXCEPT !.files = [p \in AllPaths |-> NoFile]]
    ELSE f

\* Variant of BashTool.execute: a command that outlives the timeout is
\* reported like one that exited with a non-zero status
BashTool_execute_exit(kw, f, env) ==
    LET command == Get(kw, "command", PyNone) IN
    IF ~Truthy(command)
    THEN Returned(Fail(Error("Parametro command e obrigatorio", "command")), f, <<>>)
    ELSE IF command.t # "str"
    THEN Returned(Fail(Error("Erro ao executar comando", "command")), f, <<>>)
    ELSE IF IsDangerous(command.v)
    THEN Returned(Fail(Error("Comando potencialmente perigoso bloqueado", "command")), f, <<>>)
    ELSE Returned(ToolResult(env.rc = 0 /\ ~env.timeout,
                    [kind |-> "map", stdout |-> "stdout", stderr |-> "stderr",
                     returncode |-> env.rc],
                    NoError,
                    [kind |-> "bash", command |-> command.v]),
                  ShellEffect(command.v, f), <<Proc("sh", command.v)>>)

\* BashTool.execute(command=None, cwd=".", timeout=30)
BashTool_execute(kw, f, env) ==
    LET command == Get(kw, "command", PyNone) IN
    IF ~Truthy(command)
    THEN Returned(Fail(Error("Parametro command e obrigatorio", "command")), f, <<>>)
    ELSE IF command.t # "str"
    THEN Returned(Fail(Error("Erro ao executar comando", "command")), f, <<>>)
    ELSE IF IsDangerous(command.v)
    THEN Returned(Fail(Error("Comando potencialmente perigoso bloqueado", "command")), f, <<>>)
    ELSE IF env.timeout
    THEN Returned(Fail(Error("Comando excedeu timeout", "timeout")),
                  ShellEffect(command.v, f), <<Proc("sh", command.v)>>)
    ELSE Returned(ToolResult(env.rc = 0,
                    [kind |-> "map", stdout |-> "stdout", stderr |-> "stderr",
                     returncode |-> env.rc],
                    NoError,
                    [kind |-> "bash", command |-> command.v]),
                  ShellEffect(command.v, f), <<Proc("sh", command.v)>>)

----------------------------------------------------------------------------
(* tools/search_tools.py *)

\* Whether the Python standard library's subprocess module has a function
\* `which` (it does not: the lookup raises AttributeError)
SubprocessHasWhich == FALSE

\* A pattern both backends accept: no unmatched bracket expression
IsValidPattern(pattern) == Count(pattern, <<"[">>) = Count(pattern, <<"]">>)

\* The matching lines the backend prints: one per file whose content has the pattern
GrepMatches(pattern, f) ==
    SelectSeq(SortedFilePaths,
              LAMBDA p : f.files[p].exists /\ Contains(pattern, f.files[p].content))

\* Exit status of rg / grep: 0 matches, 1 no match, 2 error
GrepReturnCode(pattern, f, env) ==
    IF ~IsValidPattern(pattern) \/ env.rc = 2 THEN 2
    ELSE IF GrepMatches(pattern, f) # <<>> THEN 0 ELSE 1

\* GrepTool.execute(pattern=None, files=None, path=".", file_pattern="*", ...)
GrepTool_execute(kw, f, env) ==
    LET files == Get(kw, "files", PyNone)
        pattern0 == Get(kw, "pattern", PyNone)
        pattern == IF Truthy(files) /\ ~Truthy(pattern0) /\ files.t = "list"
                   THEN files.v[1] ELSE pattern0
        backend == IF env.rg THEN "rg" ELSE "grep"
    IN
    IF ~Truthy(pattern)
    THEN Returned(Fail(Error("Parametro pattern e obrigatorio", "pattern")), f, <<>>)
    ELSE IF ~SubprocessHasWhich
    THEN Returned(Fail(Error("Erro ao buscar padrao", "AttributeError")), f, <<>>)
    ELSE IF pattern.t # "str"
    THEN Returned(Fail(Error("Erro ao buscar padrao", "TypeError")), f, <<>>)
    ELSE LET rc == GrepReturnCode(pattern.v, f, env)
             sp == <<Proc(backend, pattern.v)>>
             matches == IF rc = 0 THEN GrepMatches(pattern.v, f) ELSE <<>>
         IN IF rc > 1
            THEN Returned(Fail(Error("Erro na busca", "stderr")), f, sp)
            ELSE Returned(ToolResult(TRUE,
                            [kind |-> "list", items |-> matches],
                            NoError,
                            [kind |-> "grep", matches_count |-> Len(matches)]), f, sp)

----------------------------------------------------------------------------
(* tools/git_tools.py *)

\* The directories a `path` / `cwd` argument can name: "." and "d"
DirOf(path) == IF path.v = <<".">> THEN <<>> ELSE <<"d">>

\* os.path.exists(os.path.join(path, '.git'))
HasGitEntry(f, path) == (DirOf(path) \o <<".git">>) \in f.dirs

\* subprocess.run(..., cwd=path) raises when the directory does not exist
CwdExists(f, path) == DirOf(path) = <<>> \/ DirOf(path) \in f.dirs

\* GitStatusTool.execute(path=".")
GitStatusTool_execute(kw, f, env) ==
    LET path == Get(kw, "path", PyStr(<<".">>))
        sp == <<Proc("git", "status")>>
    IN
    IF path.t # "str"
    THEN Returned(Fail(Error("Erro ao verificar status Git", "path")), f, <<>>)
    ELSE IF ~HasGitEntry(f, path)
    THEN Returned(Fail(Error("Nao e um repositorio Git", "path")), f, <<>>)
    ELSE IF env.rc # 0
    THEN Returned(Fail(Error("Erro Git", "stderr")), f, sp)
    ELSE Returned(ToolResult(TRUE, [kind |-> "text", text |-> <<>>], NoError,
                             [kind |-> "git_status"]), f, sp)

\* GitDiffTool.execute(path=".", staged=False)
GitDiffTool_execute(kw, f, env) ==
    LET path == Get(kw, "path", PyStr(<<".">>))
        sp == <<Proc("git", "diff")>>
    IN
    IF path.t # "str" \/ ~CwdExists(f, path)
    THEN Returned(Fail(Error("Erro ao executar git diff", "path")), f, <<>>)
    ELSE IF env.rc # 0
    THEN Returned(Fail(Error("Erro Git", "stderr")), f, sp)
    ELSE Returned(ToolResult(TRUE, [kind |-> "text", text |-> <<>>], NoError,
                             [kind |-> "git_diff"]), f, sp)

\* GitCommitTool.execute(message, path=".", add_all=False)
GitCommitTool_execute(kw, f, env) ==
    LET path == Get(kw, "path", PyStr(<<".">>))
        add_all == Truthy(Get(kw, "add_all", PyBool(FALSE)))
        add == IF add_all THEN <<Proc("git", "add")>> ELSE <<>>
        commit == <<Proc("git", "commit")>>
    IN
    IF path.t # "str" \/ ~CwdExists(f, path)
    THEN Returned(Fail(Error("Erro ao fazer commit", "path")), f, <<>>)
    ELSE IF add_all /\ env.ioerr                 \* git add exits nonzero
    THEN Returned(Fail(Error("Erro ao adicionar arquivos", "stderr")), f, add)
    ELSE IF kw["message"].t # "str"              \* subprocess.run rejects the argv
    THEN Returned(Fail(Error("Erro ao fazer commit", "message")), f, add)
    ELSE IF env.rc # 0
    THEN Returned(Fail(Error("Erro ao fazer commit", "stderr")), f, add \o commit)
    ELSE Returned(ToolResult(TRUE, [kind |-> "text", text |-> <<>>], NoError,
                             [kind |-> "git_commit"]), f, add \o commit)

----------------------------------------------------------------------------
(* tools/analysis_tools.py *)

\* file_path.endswith('.py')
EndsWithPy(p) == p[Len(p)] \in {"b.py"}

\* ast.parse accepts the source: the model's sources are ill-formed exactly
\* when a bracket is left open
ParsesAsPython(content) == Count(content, <<"[">>) = Count(content, <<"]">>)

\* AnalyzeTool.execute(file_path=None, files=None, include_docstrings=True)
AnalyzeTool_execute(kw, f, env) ==
    LET files == Get(kw, "files", PyNone)
        file_path0 == Get(kw, "file_path", PyNone)
        file_path == IF Truthy(files) /\ ~Truthy(file_path0) /\ files.t = "list"
                     THEN files.v[1] ELSE file_path0
    IN
    IF ~Truthy(file_path)
    THEN Returned(Fail(Error("Parametro file_path e obrigatorio", "file_path")), f, <<>>)
    ELSE IF file_path.t # "str" \/ ~PathExists(f, file_path.v)
    THEN Returned(Fail(Error("Arquivo nao encontrado", "file_path")), f, <<>>)
    ELSE IF file_path.v \notin AllPaths \/ ~EndsWithPy(file_path.v)
    THEN Returned(Fail(Error("Esta ferramenta so analisa arquivos Python", "file_path")), f, <<>>)
    ELSE IF ~ParsesAsPython(f.files[file_path.v].content)
    THEN Returned(Fail(Error("Erro de sintaxe no arquivo", "SyntaxError")), f, <<>>)
    ELSE Returned(ToolResult(TRUE, [kind |-> "map", file_path |-> file_path.v],
                             NoError, NoMeta), f, <<>>)

----------------------------------------------------------------------------
(* tools/project_tools.py: MultiEditTool *)

\* One line of a batch tool's log
Line(kind, subject) == [kind |-> kind, subject |-> subject]

\* Variant of MultiEditResult: the batch succeeds only when no item failed
MultiEditResult_all(edits, results_, successful_edits) ==
    ToolResult(Len(successful_edits) = Len(edits),
               [kind |-> "log", lines |-> results_],
               NoError,
               [kind |-> "multi_edit",
                total_edits |-> Len(edits),
                successful_edits |-> Len(successful_edits),
                details |-> successful_edits])

\* The ToolResult MultiEditTool.execute returns after its loop
MultiEditResult(edits, results_, successful_edits) ==
    ToolResult(Len(successful_edits) > 0,
               [kind |-> "log", lines |-> results_],
               NoError,
               [kind |-> "multi_edit",
                total_edits |-> Len(edits),
                successful_edits |-> Len(successful_edits),
                details |-> successful_edits])

RECURSIVE MultiEditLoop(_, _, _, _)

\* The loop of MultiEditTool.execute as it would be if an item that fails
\* ended the batch
MultiEditLoop_abort(edits, i, st, env) ==
    IF i > Len(edits)
    THEN Returned(MultiEditResult(edits, st.results, st.successful_edits), st.fs, <<>>)
    ELSE LET edit == edits[i] IN
         IF edit.t # "dict"
         THEN Raised("TypeError", st.fs, <<>>)       \* edit["file_path"] on a non-mapping
         ELSE IF ~({"file_path", "old_text", "new_text"} \subseteq DOMAIN edit.v)
         THEN Raised("KeyError", st.fs, <<>>)
         ELSE LET file_path == edit.v["file_path"]
                  old_text == edit.v["old_text"]
                  new_text == edit.v["new_text"]
                  skip(kind) == Returned(MultiEditResult(edits,
                                           Append(st.results, Line(kind, file_path)),
                                           st.successful_edits),
                                         st.fs, <<>>)
              IN
              IF file_path.t # "str" \/ ~PathExists(st.fs, file_path.v)
              THEN skip("nao encontrado")
              ELSE IF ~IsFile(st.fs, file_path.v)      \* a directory: open() raises
              THEN skip("erro")
              ELSE LET content == st.fs.files[file_path.v].content IN
                   IF old_text.t # "str"
                   THEN skip("erro")
                   ELSE IF ~Contains(old_text.v, content)
                   THEN skip("texto nao encontrado")
                   ELSE IF new_text.t # "str" \/ env.ioerr
                   THEN skip("erro")
                   ELSE MultiEditLoop(edits, i + 1,
                          [fs |-> WriteFile(st.fs, file_path.v,
                                            Replace(content, old_text.v, new_text.v)),
                           results |-> Append(st.results, Line("editado", file_path)),
                           successful_edits |->
                               Append(st.successful_edits,
                                      [file |-> file_path.v,
                                       replacements |-> Count(content, old_text.v)])],
                          env)

\* The loop of MultiEditTool.execute as it would be if the keys of an item
\* were read inside the try block: an item that lacks one is logged and the
\* loop goes on
MultiEditLoop_lenient(edits, i, st, env) ==
    IF i > Len(edits)
    THEN Returned(MultiEditResult(edits, st.results, st.successful_edits), st.fs, <<>>)
    ELSE LET edit == edits[i] IN
         IF edit.t # "dict"
         THEN Raised("TypeError", st.fs, <<>>)       \* edit["file_path"] on a non-mapping
         ELSE IF ~({"file_path", "old_text", "new_text"} \subseteq DOMAIN edit.v)
         THEN MultiEditLoop(edits, i + 1,
                [st EXCEPT !.results = Append(@, Line("erro", edit))], env)
         ELSE LET file_path == edit.v["file_path"]
                  old_text == edit.v["old_text"]
                  new_text == edit.v["new_text"]
                  skip(kind) == MultiEditLoop(edits, i + 1,
                                  [st EXCEPT !.results = Append(@, Line(kind, file_path))], env)
              IN
              IF file_path.t # "str" \/ ~PathExists(st.fs, file_path.v)
              THEN skip("nao encontrado")
              ELSE IF ~IsFile(st.fs, file_path.v)      \* a directory: open() raises
              THEN skip("erro")
              ELSE LET content == st.fs.files[file_path.v].content IN
                   IF old_text.t # "str"
                   THEN skip("erro")
                   ELSE IF ~Contains(old_text.v, content)
                   THEN skip("texto nao encontrado")
                   ELSE IF new_text.t # "str" \/ env.ioerr
                   THEN skip("erro")
                   ELSE MultiEditLoop(edits, i + 1,
                          [fs |-> WriteFile(st.fs, file_path.v,
                                            Replace(content, old_text.v, new_text.v)),
                           results |-> Append(st.results, Line("editado", file_path)),
                           successful_edits |->
                               Append(st.successful_edits,
                                      [file |-> file_path.v,
                                       replacements |-> Count(content, old_text.v)])],
                          env)

\* The body of the for loop of MultiEditTool.execute, from item i on.
\* st = [fs, results, successful_edits]
MultiEditLoop(edits, i, st, env) ==
    IF i > Len(edits)
    THEN Returned(MultiEditResult(edits, st.results, st.successful_edits), st.fs, <<>>)
    ELSE LET edit == edits[i] IN
         IF edit.t # "dict"
         THEN Raised("TypeError", st.fs, <<>>)       \* edit["file_path"] on a non-mapping
         ELSE IF ~({"file_path", "old_text", "new_text"} \subseteq DOMAIN edit.v)
         THEN Raised("KeyError", st.fs, <<>>)
         ELSE LET file_path == edit.v["file_path"]
                  old_text == edit.v["old_text"]
                  new_text == edit.v["new_text"]
                  skip(kind) == MultiEditLoop(edits, i + 1,
                                  [st EXCEPT !.results = Append(@, Line(kind, file_path))], env)
              IN
              IF file_path.t # "str" \/ ~PathExists(st.fs, file_path.v)
              THEN skip("nao encontrado")
              ELSE IF ~IsFile(st.fs, file_path.v)      \* a directory: open() raises
              THEN skip("erro")
              ELSE LET content == st.fs.files[file_path.v].content IN
                   IF old_text.t # "str"
                   THEN skip("erro")
                   ELSE IF ~Contains(old_text.v, content)
                   THEN skip("texto nao encontrado")
                   ELSE IF new_text.t # "str" \/ env.ioerr
                   THEN skip("erro")
                   ELSE MultiEditLoop(edits, i + 1,
                          [fs |-> WriteFile(st.fs, file_path.v,
                                            Replace(content, old_text.v, new_text.v)),
                           results |-> Append(st.results, Line("editado", file_path)),
                           successful_edits |->
                               Append(st.successful_edits,
                                      [file |-> file_path.v,
                                       replacements |-> Count(content, old_text.v)])],
                          env)

\* MultiEditTool.execute(edits)
MultiEditTool_execute(kw, f, env) ==
    LET edits == kw["edits"] IN
    IF edits.t # "list"
    THEN Raised("TypeError", f, <<>>)               \* enumerate() of a non-iterable
    ELSE MultiEditLoop(edits.v, 1, [fs |-> f, results |-> <<>>, successful_edits |-> <<>>], env)

----------------------------------------------------------------------------
(* tools/project_tools.py: CreateProjectTool *)

\* Where a Path lands once the operating system has resolved its ".." parts
RECURSIVE Resolve(_)
Resolve(p) ==
    IF p = <<>> THEN <<>>
    ELSE LET init == Resolve(SubSeq(p, 1, Len(p) - 1))
             last == p[Len(p)]
         IN IF last = ".."
            THEN (IF init = <<>> THEN <<>> ELSE SubSeq(init, 1, Len(init) - 1))
            ELSE Append(init, last)

\* Some proper prefix of p (or p itself) is an existing regular file
BlockedByFile(f, d) ==
    \E k \in 1..Len(d) : SubSeq(d, 1, k) \in AllPaths /\ f.files[SubSeq(d, 1, k)].exists

\* The body of the for loop of CreateProjectTool.execute, from entry i on.
\* st = [fs, results, created_files]
RECURSIVE CreateProjectLoop(_, _, _, _, _, _)
CreateProjectLoop(project_path, kw, files, i, st, env) ==
    IF i > Len(files)
    THEN Returned(ToolResult(Len(st.created_files) > 0,
                    [kind |-> "log", lines |-> st.results],
                    NoError,
                    [kind |-> "create_project",
                     project_name |-> kw["project_name"].v,
                     files_created |-> Len(st.created_files),
                     files |-> st.created_files]),
                  st.fs, <<>>)
    ELSE LET file_info == files[i] IN
         IF file_info.t # "dict"
         THEN Raised("TypeError", st.fs, <<>>)
         ELSE IF ~({"path", "content"} \subseteq DOMAIN file_info.v)
         THEN Raised("KeyError", st.fs, <<>>)
         ELSE IF file_info.v["path"].t # "str"
         THEN Raised("TypeError", st.fs, <<>>)        \* project_path / 5
         ELSE LET file_path == Resolve(project_path \o file_info.v["path"].v)
                  content == file_info.v["content"]
                  failed(g) == CreateProjectLoop(project_path, kw, files, i + 1,
                                 [st EXCEPT !.fs = g,
                                            !.results = Append(@, Line("erro", file_info.v["path"]))],
                                 env)
              IN
              IF BlockedByFile(st.fs, Dirname(file_path))
              THEN failed(st.fs)                      \* parent.mkdir raises
              ELSE LET f1 == MakeDirs(st.fs, Dirname(file_path)) IN
                   IF file_path \notin AllPaths \/ file_path \in f1.dirs \/ env.ioerr
                   THEN failed(f1)                    \* open(file_path, 'w') raises
                   ELSE IF content.t # "str"
                   THEN failed(WriteFile(f1, file_path, <<>>))   \* f.write raises after truncation
                   ELSE CreateProjectLoop(project_path, kw, files, i + 1,
                          [fs |-> WriteFile(f1, file_path, content.v),
                           results |-> Append(st.results, Line("criado", file_info.v["path"])),
                           created_files |-> Append(st.created_files, file_path)],
                          env)

\* CreateProjectTool.execute as it would be with a mkdir that refuses a
\* directory that is already there
CreateProjectTool_execute_exclusive(kw, f, env) ==
    LET project_name == kw["project_name"]
        files == kw["files"]
    IN
    IF project_name.t # "str"
    THEN Raised("TypeError", f, <<>>)               \* Path(5)
    ELSE LET project_path == project_name.v IN
         IF BlockedByFile(f, project_path)
            \/ project_path \in f.dirs
            \/ (Len(project_path) > 1 /\ Dirname(project_path) \notin f.dirs)
         THEN Returned(ToolResult(FALSE,
                         [kind |-> "text", text |-> <<"E", "r", "r", "o", " ", "a", "o", " ", "c", "r", "i", "a", "r", " ", "d", "i", "r", "e", "t", "o", "r", "i", "o", " ", "d", "o", " ", "p", "r", "o", "j", "e", "t", "o">>],
                         Error("mkdir", "project_name"), NoMeta), f, <<>>)
         ELSE LET f1 == [f EXCEPT !.dirs = @ \cup {project_path}] IN
              IF files.t # "list"
              THEN Raised("TypeError", f1, <<>>)
              ELSE CreateProjectLoop(project_path, kw, files.v, 1,
                     [fs |-> f1,
                      results |-> <<Line("projeto criado", project_name)>>,
                      created_files |-> <<>>],
                     env)

\* CreateProjectTool.execute(project_name, files, project_type="python")
CreateProjectTool_execute(kw, f, env) ==
    LET project_name == kw["project_name"]
        files == kw["files"]
    IN
    IF project_name.t # "str"
    THEN Raised("TypeError", f, <<>>)               \* Path(5)
    ELSE LET project_path == project_name.v IN
         IF BlockedByFile(f, project_path)
            \/ (Len(project_path) > 1 /\ Dirname(project_path) \notin f.dirs)
         THEN Returned(ToolResult(FALSE,
                         [kind |-> "text", text |-> <<"E", "r", "r", "o", " ", "a", "o", " ", "c", "r", "i", "a", "r", " ", "d", "i", "r", "e", "t", "o", "r", "i", "o", " ", "d", "o", " ", "p", "r", "o", "j", "e", "t", "o">>],
                         Error("mkdir", "project_name"), NoMeta), f, <<>>)
         ELSE LET f1 == [f EXCEPT !.dirs = @ \cup {project_path}] IN
              IF files.t # "list"
              THEN Raised("TypeError", f1, <<>>)
              ELSE CreateProjectLoop(project_path, kw, files.v, 1,
                     [fs |-> f1,
                      results |-> <<Line("projeto criado", project_name)>>,
                      created_files |-> <<>>],
                     env)

----------------------------------------------------------------------------
(* tools/project_tools.py: RefactorTool *)

\* Characters the regex class \w accepts, among those the model uses
WordChars == { "a", "b", "c", "d", "e", "f", "l", "s", "x", "y", "_" }

\* Characters the regex class \s accepts
SpaceChars == { " " }

\* \b at offset k of s (between s[k] and s[k+1])
Boundary(s, k) ==
    LET before == k >= 1 /\ k <= Len(s) /\ s[k] \in WordChars
        after == k + 1 >= 1 /\ k + 1 <= Len(s) /\ s[k + 1] \in WordChars
    IN before # after

\* The four patterns of _rename_in_file, in the order they are applied:
\* \bdef NAME\b, \bclass NAME\b, \bNAME\s*=, \bNAME\b
RenamePatterns(old_name) ==
    << [lit |-> <<"d", "e", "f", " ">> \o old_name, tail |-> "b"],
       [lit |-> <<"c", "l", "a", "s", "s", " ">> \o old_name, tail |-> "b"],
       [lit |-> old_name, tail |-> "ws="],
       [lit |-> old_name, tail |-> "b"] >>

\* First offset >= j of s that holds no whitespace
RECURSIVE SkipSpace(_, _)
SkipSpace(s, j) ==
    IF j <= Len(s) /\ s[j] \in SpaceChars THEN SkipSpace(s, j + 1) ELSE j

\* Length of the match of pat that starts at offset i of s, -1 if none
MatchLen(pat, s, i) ==
    LET n == Len(pat.lit) IN
    IF i + n - 1 > Len(s) THEN -1
    ELSE IF ~Boundary(s, i - 1) \/ SubSeq(s, i, i + n - 1) # pat.lit THEN -1
    ELSE IF pat.tail = "b"
         THEN (IF Boundary(s, i + n - 1) THEN n ELSE -1)
         ELSE LET j == SkipSpace(s, i + n) IN
              IF j <= Len(s) /\ s[j] = "=" THEN j - i + 1 ELSE -1

\* re.findall / re.sub of one pattern over s from offset i: the rewritten
\* text and the number of matches
RECURSIVE RegexSub(_, _, _, _, _)
RegexSub(pat, s, i, old_name, new_name) ==
    IF i > Len(s) + 1 THEN [out |-> <<>>, n |-> 0]
    ELSE LET m == MatchLen(pat, s, i) IN
         IF m > 0
         THEN LET r == RegexSub(pat, s, i + m, old_name, new_name) IN
              [out |-> Replace(SubSeq(s, i, i + m - 1), old_name, new_name) \o r.out,
               n |-> r.n + 1]
         ELSE LET r == RegexSub(pat, s, i + 1, old_name, new_name)
                  here == IF m = 0 THEN Replace(<<>>, old_name, new_name) ELSE <<>>
                  char == IF i <= Len(s) THEN <<s[i]>> ELSE <<>>
              IN [out |-> here \o char \o r.out, n |-> r.n + (IF m = 0 THEN 1 ELSE 0)]

\* The for loop over the patterns of _rename_in_file
RECURSIVE RenameLoop(_, _, _, _, _, _)
RenameLoop(patterns, k, new_content, replacements, old_name, new_name) ==
    IF k > Len(patterns) THEN [content |-> new_content, replacements |-> replacements]
    ELSE LET r == RegexSub(patterns[k], new_content, 1, old_name, new_name) IN
         RenameLoop(patterns, k + 1, r.out, replacements + r.n, old_name, new_name)

\* RefactorTool._rename_in_file: the message returned and the filesystem left
_rename_in_file(file_path, old_name, new_name, f, env) ==
    LET erro == [text |-> <<"E", "r", "r", "o">>, fs |-> f, replacements |-> 0] IN
    IF file_path.t # "str" \/ file_path.v \notin AllPaths \/ ~f.files[file_path.v].exists
    THEN erro
    ELSE IF old_name.t # "str" \/ new_name.t # "str"
    THEN erro
    ELSE LET r == RenameLoop(RenamePatterns(old_name.v), 1, f.files[file_path.v].content,
                             0, old_name.v, new_name.v)
         IN IF r.replacements > 0
            THEN (IF env.ioerr THEN erro
                  ELSE [text |-> <<"a", "l", "t", "e", "r", "a", "c", "o", "e", "s">>,
                        fs |-> WriteFile(f, file_path.v, r.content),
                        replacements |-> r.replacements])
            ELSE [text |-> <<"n", "a", "o", " ", "e", "n", "c", "o", "n", "t", "r", "a", "d", "o">>, fs |-> f, replacements |-> 0]

\* The literal RefactorTool.execute looks for in the message of a rename to
\* count it as successful
SuccessMarker == <<>>

\* The body of the for loop of RefactorTool.execute, from operation i on.
\* st = [fs, results, successful_ops]
RECURSIVE RefactorLoop(_, _, _, _)
RefactorLoop(operations, i, st, env) ==
    IF i > Len(operations)
    THEN Returned(ToolResult(st.successful_ops > 0,
                    [kind |-> "log", lines |-> st.results],
                    NoError,
                    [kind |-> "refactor",
                     total_operations |-> Len(operations),
                     successful_operations |-> st.successful_ops]),
                  st.fs, <<>>)
    ELSE LET op == operations[i] IN
         IF op.t # "dict"
         THEN Raised("TypeError", st.fs, <<>>)
         ELSE IF ~({"type", "file_path"} \subseteq DOMAIN op.v)
         THEN Raised("KeyError", st.fs, <<>>)
         ELSE LET op_type == op.v["type"]
                  logged(kind) == RefactorLoop(operations, i + 1,
                                    [st EXCEPT !.results = Append(@, Line(kind, op_type))], env)
              IN
              IF StrEq(op_type, <<"r", "e", "n", "a", "m", "e">>) /\ "old_name" \in DOMAIN op.v
                                            /\ "new_name" \in DOMAIN op.v
              THEN LET r == _rename_in_file(op.v["file_path"], op.v["old_name"],
                                            op.v["new_name"], st.fs, env)
                   IN RefactorLoop(operations, i + 1,
                        [fs |-> r.fs,
                         results |-> Append(st.results,
                                            [kind |-> r.text, subject |-> op_type,
                                             replacements |-> r.replacements]),
                         successful_ops |-> st.successful_ops
                             + (IF Contains(SuccessMarker, r.text) THEN 1 ELSE 0)],
                        env)
              ELSE IF StrEq(op_type, <<"m", "o", "v", "e">>)
              THEN logged("nao implementada")
              ELSE logged("desconhecida")

\* RefactorTool.execute(operations)
RefactorTool_execute(kw, f, env) ==
    LET operations == kw["operations"] IN
    IF operations.t # "list"
    THEN Raised("TypeError", f, <<>>)
    ELSE RefactorLoop(operations.v, 1, [fs |-> f, results |-> <<>>, successful_ops |-> 0], env)

----------------------------------------------------------------------------
(* tools/project_tools.py: BackupTool *)

RECURSIVE BackupLoop(_, _, _, _, _)

\* The loop of BackupTool.execute as it would be if a file that is skipped
\* failed the batch
BackupLoop_strict(backup_path, files, i, st, env) ==
    IF i > Len(files)
    THEN Returned(ToolResult(Len(st.backed_up) = Len(files),
                    [kind |-> "log", lines |-> st.results],
                    NoError,
                    [kind |-> "backup",
                     backup_dir |-> backup_path,
                     files_backed_up |-> Len(st.backed_up),
                     timestamp |-> env.now]),
                  st.fs, <<>>)
    ELSE LET file_path == files[i]
             logged(kind) == BackupLoop(backup_path, files, i + 1,
                               [st EXCEPT !.results = Append(@, Line(kind, file_path))], env)
         IN
         IF file_path.t # "str" \/ ~PathExists(st.fs, file_path.v)
         THEN logged("nao encontrado")
         ELSE LET dst == Append(backup_path, Basename(file_path.v)) IN
              IF ~IsFile(st.fs, file_path.v) \/ dst \notin AllPaths \/ dst \in st.fs.dirs
                 \/ env.ioerr
              THEN logged("erro")                    \* shutil.copy2 raises
              ELSE BackupLoop(backup_path, files, i + 1,
                     [fs |-> WriteFile(st.fs, dst, st.fs.files[file_path.v].content),
                      results |-> Append(st.results, Line("copiado", file_path)),
                      backed_up |-> Append(st.backed_up, file_path.v)],
                     env)

\* The body of the for loop of BackupTool.execute, from file i on.
\* st = [fs, results, backed_up]
BackupLoop(backup_path, files, i, st, env) ==
    IF i > Len(files)
    THEN Returned(ToolResult(Len(st.backed_up) > 0,
                    [kind |-> "log", lines |-> st.results],
                    NoError,
                    [kind |-> "backup",
                     backup_dir |-> backup_path,
                     files_backed_up |-> Len(st.backed_up),
                     timestamp |-> env.now]),
                  st.fs, <<>>)
    ELSE LET file_path == files[i]
             logged(kind) == BackupLoop(backup_path, files, i + 1,
                               [st EXCEPT !.results = Append(@, Line(kind, file_path))], env)
         IN
         IF file_path.t # "str" \/ ~PathExists(st.fs, file_path.v)
         THEN logged("nao encontrado")
         ELSE LET dst == Append(backup_path, Basename(file_path.v)) IN
              IF ~IsFile(st.fs, file_path.v) \/ dst \notin AllPaths \/ dst \in st.fs.dirs
                 \/ env.ioerr
              THEN logged("erro")                    \* shutil.copy2 raises
              ELSE BackupLoop(backup_path, files, i + 1,
                     [fs |-> WriteFile(st.fs, dst, st.fs.files[file_path.v].content),
                      results |-> Append(st.results, Line("copiado", file_path)),
                      backed_up |-> Append(st.backed_up, file_path.v)],
                     env)

\* BackupTool.execute(files=None, backup_dir=".backups")
BackupTool_execute(kw, f, env) ==
    LET files == Get(kw, "files", PyNone)
        backup_dir == Get(kw, "backup_dir", PyStr(<<".backups">>))
    IN
    IF ~Truthy(files)
    THEN Returned(Fail(Error("Parametro files e obrigatorio", "files")), f, <<>>)
    ELSE IF backup_dir.t # "str"
    THEN Raised("TypeError", f, <<>>)               \* Path(5)
    ELSE LET backup_path == Append(backup_dir.v, env.now) IN
         IF BlockedByFile(f, backup_path)
         THEN Returned(ToolResult(FALSE,
                         [kind |-> "text", text |-> <<"E", "r", "r", "o", " ", "a", "o", " ", "c", "r", "i", "a", "r", " ", "d", "i", "r", "e", "t", "o", "r", "i", "o", " ", "d", "e", " ", "b", "a", "c", "k", "u", "p">>],
                         Error("mkdir", "backup_dir"), NoMeta), f, <<>>)
         ELSE IF files.t # "list"
         THEN Raised("TypeError", MakeDirs(f, backup_path), <<>>)
         ELSE BackupLoop(backup_path, files.v, 1,
                [fs |-> MakeDirs(f, backup_path), results |-> <<>>, backed_up |-> <<>>], env)

----------------------------------------------------------------------------
(* tools/__init__.py and tools/base.py: the registry *)

\* The registrations of tools/__init__.py, in order: the name each tool
\* reports and the class that implements it
DefaultTools ==
    << [name |-> "read", impl |-> "ReadTool"],
       [name |-> "write", impl |-> "WriteTool"],
       [name |-> "edit", impl |-> "EditTool"],
       [name |-> "glob", impl |-> "GlobTool"],
       [name |-> "bash", impl |-> "BashTool"],
       [name |-> "git_status", impl |-> "GitStatusTool"],
       [name |-> "git_diff", impl |-> "GitDiffTool"],
       [name |-> "git_commit", impl |-> "GitCommitTool"],
       [name |-> "grep", impl |-> "GrepTool"],
       [name |-> "analyze", impl |-> "AnalyzeTool"],
       [name |-> "multi_edit", impl |-> "MultiEditTool"],
       [name |-> "create_project", impl |-> "CreateProjectTool"],
       [name |-> "refactor", impl |-> "RefactorTool"],
       [name |-> "backup", impl |-> "BackupTool"] >>

\* The keyword parameters of each execute method: those without a default
\* and all of them
Signature(impl) ==
    CASE impl = "ReadTool" ->
           [required |-> {"file_path"}, all |-> {"file_path"}]
      [] impl = "WriteTool" ->
           [required |-> {"file_path", "content"}, all |-> {"file_path", "content"}]
      [] impl = "EditTool" ->
           [required |-> {"file_path", "old_text", "new_text"},
            all |-> {"file_path", "old_text", "new_text"}]
      [] impl = "GlobTool" ->
           [required |-> {"pattern"}, all |-> {"pattern", "recursive"}]
      [] impl = "BashTool" ->
           [required |-> {}, all |-> {"command", "cwd", "timeout"}]
      [] impl = "GitStatusTool" ->
           [required |-> {}, all |-> {"path"}]
      [] impl = "GitDiffTool" ->
           [required |-> {}, all |-> {"path", "staged"}]
      [] impl = "GitCommitTool" ->
           [required |-> {"message"}, all |-> {"message", "path", "add_all"}]
      [] impl = "GrepTool" ->
           [required |-> {},
            all |-> {"pattern", "files", "path", "file_pattern", "ignore_case", "line_numbers"}]
      [] impl = "AnalyzeTool" ->
           [required |-> {}, all |-> {"file_path", "files", "include_docstrings"}]
      [] impl = "MultiEditTool" ->
           [required |-> {"edits"}, all |-> {"edits"}]
      [] impl = "CreateProjectTool" ->
           [required |-> {"project_name", "files"},
            all |-> {"project_name", "files", "project_type"}]
      [] impl = "RefactorTool" ->
           [required |-> {"operations"}, all |-> {"operations"}]
      [] impl = "BackupTool" ->
           [required |-> {}, all |-> {"files", "backup_dir"}]

\* Python binds kwargs to the parameters of execute: a missing required
\* parameter or an unexpected keyword raises TypeError
BindsTo(impl, kw) ==
    /\ Signature(impl).required \subseteq DOMAIN kw
    /\ DOMAIN kw \subseteq Signature(impl).all

\* tool.execute(**kwargs), dispatched on the class of the tool
Tool_execute(impl, kw, f, env) ==
    IF ~BindsTo(impl, kw) THEN Raised("TypeError", f, <<>>)
    ELSE CASE impl = "ReadTool" -> ReadTool_execute(kw, f, env)
           [] impl = "WriteTool" -> WriteTool_execute(kw, f, env)
           [] impl = "EditTool" -> EditTool_execute(kw, f, env)
           [] impl = "GlobTool" -> GlobTool_execute(kw, f, env)
           [] impl = "BashTool" -> BashTool_execute(kw, f, env)
           [] impl = "GitStatusTool" -> GitStatusTool_execute(kw, f, env)
           [] impl = "GitDiffTool" -> GitDiffTool_execute(kw, f, env)
           [] impl = "GitCommitTool" -> GitCommitTool_execute(kw, f, env)
           [] impl = "GrepTool" -> GrepTool_execute(kw, f, env)
           [] impl = "AnalyzeTool" -> AnalyzeTool_execute(kw, f, env)
           [] impl = "MultiEditTool" -> MultiEditTool_execute(kw, f, env)
           [] impl = "CreateProjectTool" -> CreateProjectTool_execute(kw, f, env)
           [] impl = "RefactorTool" -> RefactorTool_execute(kw, f, env)
           [] impl = "BackupTool" -> BackupTool_execute(kw, f, env)

\* ToolRegistry.register as it would be with a list of tools instead of a dict
register_append(reg, tool) == Append(reg, tool)

\* ToolRegistry.register: a dict assignment, which replaces the value of a
\* key that is there and keeps its place, and adds a new key last
register(reg, tool) ==
    IF \E i \in 1..Len(reg) : reg[i].name = tool.name
    THEN [i \in 1..Len(reg) |-> IF reg[i].name = tool.name THEN tool ELSE reg[i]]
    ELSE Append(reg, tool)

\* Tool.to_dict: name, description and parameters are properties of the
\* tool's class
to_dict(tool) ==
    [name |-> tool.name, description |-> <<"description", tool.impl>>,
     parameters |-> <<"parameters", tool.impl>>]

\* ToolRegistry.get_tools_description
get_tools_description(reg) == [i \in 1..Len(reg) |-> to_dict(reg[i])]

\* ToolRegistry.list_tools
list_tools(reg) == [i \in 1..Len(reg) |-> reg[i].name]

\* ToolRegistry.get_tool: the implementing class, "None" when absent
get_tool(reg, name) ==
    IF name.t = "str" /\ \E i \in 1..Len(reg) : reg[i].name = name.v
    THEN (CHOOSE t \in { reg[i] : i \in 1..Len(reg) } : t.name = name.v).impl
    ELSE "None"

\* str(name) inside an error message
NameText(name) == IF name.t = "str" THEN name.v ELSE "None"

\* The parameters of ToolRegistry.execute_tool itself; a keyword argument of
\* the same name collides with them when the call is bound
OwnParameters == { "self", "name" }

\* The try block of execute_tool around r, the outcome of tool.execute: what
\* it returned is handed on, what it raised becomes a failed ToolResult
Guarded(name, tool, r) ==
    [escaped |-> "None", invoked |-> tool,
     result |-> IF r.raised = "None" THEN r.result
                ELSE Fail(Error("Erro ao executar ferramenta", NameText(name))),
     fs |-> r.fs, spawned |-> r.spawned]

\* registry.execute_tool(name, **kwargs) as seen by the caller: `escaped` is
\* the exception the call raises to its caller ("None" when it returns),
\* `invoked` the class whose execute ran ("None" when none did)
execute_tool(reg, name, kw, f, env) ==
    IF DOMAIN kw \cap OwnParameters # {}
    THEN [escaped |-> "TypeError", invoked |-> "None", result |-> Fail(NoError),
          fs |-> f, spawned |-> <<>>]
    ELSE IF name.t \in {"list", "dict"}
    THEN [escaped |-> "TypeError", invoked |-> "None", result |-> Fail(NoError),
          fs |-> f, spawned |-> <<>>]             \* dict.get of an unhashable key
    ELSE LET tool == get_tool(reg, name) IN
         IF tool = "None"
         THEN [escaped |-> "None", invoked |-> "None",
               result |-> Fail(Error("Ferramenta nao encontrada", NameText(name))),
               fs |-> f, spawned |-> <<>>]
         ELSE Guarded(name, tool, Tool_execute(tool, kw, f, env))

----------------------------------------------------------------------------
(* core/context.py: the conversation memory *)

\* Entries save_memory writes: conversation_history[-50:]
SavedEntries == 50

\* Entries add_conversation_entry keeps in memory
KeptEntries == 100

\* Python s[-n:] for n > 0
LastN(s, n) == IF Len(s) > n THEN SubSeq(s, Len(s) - n + 1, Len(s)) ELSE s

\* ContextManager.load_memory: the history read back from the memory file
load_memory(file) == file

\* ContextManager.save_memory: what the memory file holds afterwards
save_memory(history) == LastN(history, SavedEntries)

\* ContextManager.add_conversation_entry: the history after the append and
\* the trim
add_conversation_entry(history, entry) ==
    IF Len(history) + 1 > KeptEntries
    THEN LastN(Append(history, entry), KeptEntries)
    ELSE Append(history, entry)

----------------------------------------------------------------------------
(* core/ai_client.py *)

\* A directive: the JSON object {"action": ..., ...}
AnswerDirective(text) ==
    PyDict([action |-> PyStr("ANSWER_QUESTION"), answer |-> PyStr(text)])

\* GeminiClient.process_request.  The model call either raises
\* (kind "raise") or yields text; json.loads either rejects the cleaned text
\* (json = FALSE) or decodes it to `value`, whatever JSON value that is.
process_request(outcome) ==
    IF outcome.kind = "raise"
    THEN AnswerDirective(<<"Erro ao processar solicitacao", outcome.text>>)
    ELSE IF outcome.json
    THEN outcome.value
    ELSE AnswerDirective(<<outcome.text>>)

----------------------------------------------------------------------------
(* What a handler of a dispatcher leaves behind *)

Say(kind, text) == [kind |-> kind, text |-> text]

\* A registry call as recorded in `calls`: its arguments, the class whose
\* execute ran, the exception the call raised to the handler, and what the
\* operating system answered during the call
Call(name, kw, r, env) ==
    [name |-> NameText(name), kw |-> kw, invoked |-> r.invoked, escaped |-> r.escaped,
     env |-> env]

\* The point of a handler where it calls the registry
Calling(name) == <<Say("call", NameText(name))>>

\* A handler that made no registry call
Quiet(f, out, e, ans) ==
    [fs |-> f, calls |-> <<>>, results |-> <<>>, trace |-> out, spawned |-> <<>>,
     exc |-> e, answer |-> ans]

\* The lines the file and command handlers print for the result of their call
ReportDone(what, result) ==
    IF result.success THEN <<Say("ok", what)>> ELSE <<Say("error", what)>>

\* A handler that printed `before`, made one registry call, and printed the
\* line that reports the result under the label `what`
OneCall(name, kw, r, env, before, what, ans) ==
    IF r.escaped # "None"
    THEN [fs |-> r.fs, calls |-> <<Call(name, kw, r, env)>>, results |-> <<>>,
          trace |-> before \o Calling(name), spawned |-> r.spawned,
          exc |-> r.escaped, answer |-> ans]
    ELSE [fs |-> r.fs, calls |-> <<Call(name, kw, r, env)>>, results |-> <<r.result>>,
          trace |-> before \o Calling(name) \o ReportDone(what, r.result), spawned |-> r.spawned,
          exc |-> "None", answer |-> ans]

\* The lines both dispatchers print for the result of a tool
ReportTool(name, result) ==
    IF result.success THEN <<Say("ok", NameText(name))>>
    ELSE <<Say("error", NameText(name))>>

\* The explanation line, printed when the directive has one
Explain(d) ==
    IF Truthy(Get(d, "explanation", PyStr(<<>>))) THEN <<Say("dim", "explanation")>> ELSE <<>>

RECURSIVE MultiToolLoop(_, _, _, _, _, _)

\* One pass of the loop body after the registry call of entry i gave r: an
\* exception of the call leaves the loop, a result is reported and the loop
\* goes on with entry i + 1
MultiToolStep(reg, tools, i, st, envs, pre, tool_name, kw, r) ==
    IF r.escaped # "None"
    THEN [st EXCEPT !.exc = r.escaped,
                    !.trace = @ \o pre \o Calling(tool_name),
                    !.calls = Append(@, Call(tool_name, kw, r, envs[i]))]
    ELSE MultiToolLoop(reg, tools, i + 1,
                       [fs |-> r.fs,
                        calls |-> Append(st.calls, Call(tool_name, kw, r, envs[i])),
                        results |-> Append(st.results, r.result),
                        trace |-> st.trace \o pre \o Calling(tool_name)
                                     \o ReportTool(tool_name, r.result),
                        spawned |-> st.spawned \o r.spawned,
                        exc |-> "None",
                        answer |-> st.answer],
                       envs, pre)

\* The for loop of _handle_multi_tool / _execute_multi_tool_action from entry
\* i on; `pre` is what is printed before each call.  st is a handler outcome.
MultiToolLoop(reg, tools, i, st, envs, pre) ==
    IF i > Len(tools) THEN st
    ELSE LET tool_info == tools[i] IN
         IF tool_info.t # "dict"
         THEN [st EXCEPT !.exc = "AttributeError"]       \* tool_info.get
         ELSE LET tool_name == Get(tool_info.v, "tool", PyNone)
                  parameters == Get(tool_info.v, "parameters", PyDict(<<>>))
              IN
              IF parameters.t # "dict"
              THEN [st EXCEPT !.exc = "TypeError", !.trace = @ \o pre]   \* ** of a non-mapping
              ELSE MultiToolStep(reg, tools, i, st, envs, pre, tool_name, parameters.v,
                                 execute_tool(reg, tool_name, parameters.v, st.fs, envs[i]))

----------------------------------------------------------------------------
(* gemini_coder.py: the one-shot dispatcher *)

\* str.lower() of what the user typed
Lower(a) == IF a = "S" THEN "s" ELSE a

\* GeminiCoder._handle_response: the handler chosen for a response
GeminiCoder_handle_response(resp) ==
    IF resp.t # "dict" THEN "raise"                     \* response.get
    ELSE LET action == Get(resp.v, "action", PyStr("ANSWER_QUESTION")) IN
         IF StrEq(action, "CREATE_FILE") THEN "CREATE_FILE"
         ELSE IF StrEq(action, "EDIT_FILE") THEN "EDIT_FILE"
         ELSE IF StrEq(action, "RUN_COMMAND") THEN "RUN_COMMAND"
         ELSE IF StrEq(action, "USE_TOOL") THEN "USE_TOOL"
         ELSE IF StrEq(action, "MULTI_TOOL") THEN "MULTI_TOOL"
         ELSE "ANSWER_QUESTION"

\* GeminiCoder._handle_create_file
GeminiCoder_handle_create_file(reg, d, f, ans, env) ==
    LET filepath == Get(d, "path", PyNone)
        new_content == Get(d, "new_content", PyStr(<<>>))
        shown == <<Say("panel", "Criar Arquivo")>>
        kw == [file_path |-> filepath, content |-> new_content]
    IN
    IF ~Truthy(filepath)
    THEN Quiet(f, <<Say("error", "Caminho do arquivo nao especificado")>>, "None", "-")
    ELSE IF filepath.t = "str" /\ PathExists(f, filepath.v)
    THEN Quiet(f, <<Say("error", "O arquivo ja existe")>>, "None", "-")
    ELSE IF new_content.t # "str"
    THEN Quiet(f, shown, "TypeError", "-")              \* len(new_content)
    ELSE IF Lower(ans) = "s"
    THEN OneCall(PyStr("write"), kw, execute_tool(reg, PyStr("write"), kw, f, env), env,
                 shown \o <<Say("prompt", "Deseja criar este arquivo?")>>,
                 "Arquivo criado", ans)
    ELSE Quiet(f, shown \o <<Say("prompt", "Deseja criar este arquivo?"),
                             Say("cancel", "Criacao cancelada")>>, "None", ans)

\* Variant of GeminiCoder._handle_edit_file: the write is made whatever the
\* user answered
GeminiCoder_handle_edit_file_unconfirmed(reg, d, f, ans, env) ==
    LET filepath == Get(d, "path", PyNone)
        new_content == Get(d, "new_content", PyStr(<<>>))
        shown == <<Say("panel", "Editar Arquivo"), Say("prompt", "Deseja aplicar a edicao?")>>
        kw == [file_path |-> filepath, content |-> new_content]
    IN
    OneCall(PyStr("write"), kw, execute_tool(reg, PyStr("write"), kw, f, env), env,
            shown, "Arquivo editado", ans)

\* GeminiCoder._handle_edit_file
GeminiCoder_handle_edit_file(reg, d, f, ans, env) ==
    LET filepath == Get(d, "path", PyNone)
        new_content == Get(d, "new_content", PyStr(<<>>))
        shown == <<Say("panel", "Editar Arquivo"), Say("prompt", "Deseja aplicar a edicao?")>>
        kw == [file_path |-> filepath, content |-> new_content]
    IN
    IF Lower(ans) = "s"
    THEN OneCall(PyStr("write"), kw, execute_tool(reg, PyStr("write"), kw, f, env), env,
                 shown, "Arquivo editado", ans)
    ELSE Quiet(f, shown \o <<Say("cancel", "Edicao cancelada")>>, "None", ans)

\* GeminiCoder._handle_run_command
GeminiCoder_handle_run_command(reg, d, f, ans, env) ==
    LET command == Get(d, "command", PyStr(<<>>))
        shown == <<Say("panel", "Executar Comando"), Say("prompt", "Deseja executar o comando?")>>
        kw == [command |-> command]
    IN
    IF Lower(ans) = "s"
    THEN OneCall(PyStr("bash"), kw, execute_tool(reg, PyStr("bash"), kw, f, env), env,
                 shown, "Comando executado", ans)
    ELSE Quiet(f, shown \o <<Say("cancel", "Execucao cancelada")>>, "None", ans)

\* GeminiCoder._handle_tool_use as it would be if it asked before running
\* the tool, in the way _handle_run_command does
GeminiCoder_handle_tool_use_confirmed(reg, d, f, env) ==
    LET tool_name == Get(d, "tool", PyNone)
        parameters == Get(d, "parameters", PyDict(<<>>))
        shown == Explain(d) \o <<Say("prompt", "Deseja executar a ferramenta?")>>
    IN
    IF parameters.t # "dict"
    THEN Quiet(f, Explain(d), "TypeError", "-")
    ELSE OneCall(tool_name, parameters.v,
                 execute_tool(reg, tool_name, parameters.v, f, env), env,
                 shown, NameText(tool_name), "s")

\* GeminiCoder._handle_tool_use
GeminiCoder_handle_tool_use(reg, d, f, env) ==
    LET tool_name == Get(d, "tool", PyNone)
        parameters == Get(d, "parameters", PyDict(<<>>))
    IN
    IF parameters.t # "dict"
    THEN Quiet(f, Explain(d), "TypeError", "-")          \* ** of a non-mapping
    ELSE OneCall(tool_name, parameters.v,
                 execute_tool(reg, tool_name, parameters.v, f, env), env,
                 Explain(d), NameText(tool_name), "-")

\* GeminiCoder._handle_multi_tool
GeminiCoder_handle_multi_tool(reg, d, f, envs) ==
    LET tools == Get(d, "tools", PyList(<<>>)) IN
    IF tools.t # "list"
    THEN Quiet(f, Explain(d), "TypeError", "-")          \* for over a non-iterable
    ELSE MultiToolLoop(reg, tools.v, 1, Quiet(f, Explain(d), "None", "-"), envs, <<>>)

\* GeminiCoder._handle_answer
GeminiCoder_handle_answer(d, f) ==
    Quiet(f, <<Say("answer", Get(d, "answer", PyStr(<<>>)).v)>>, "None", "-")

----------------------------------------------------------------------------
(* core/interactive.py: the interactive dispatcher *)

\* Prompt.ask(..., choices=['s', 'n'], default='s'): an empty line takes the
\* default (any other line is asked again and never returned)
PromptAsk(a) == IF a = "" THEN "s" ELSE a

\* Variant of InteractiveMode._handle_ai_response: a response without a
\* recognised action that names a tool is run as a tool call
InteractiveMode_handle_ai_response_tool(resp) ==
    IF resp.t # "dict" THEN "raise"
    ELSE LET action == Get(resp.v, "action", PyStr("ANSWER_QUESTION")) IN
         IF StrEq(action, "USE_TOOL") THEN "USE_TOOL"
         ELSE IF StrEq(action, "MULTI_TOOL") THEN "MULTI_TOOL"
         ELSE IF StrEq(action, "CREATE_FILE") THEN "CREATE_FILE"
         ELSE IF StrEq(action, "EDIT_FILE") THEN "EDIT_FILE"
         ELSE IF StrEq(action, "RUN_COMMAND") THEN "RUN_COMMAND"
         ELSE IF "tool" \in DOMAIN resp.v THEN "USE_TOOL"
         ELSE "ANSWER_QUESTION"

\* InteractiveMode._handle_ai_response: the handler chosen for a response
InteractiveMode_handle_ai_response(resp) ==
    IF resp.t # "dict" THEN "raise"                     \* response.get
    ELSE LET action == Get(resp.v, "action", PyStr("ANSWER_QUESTION")) IN
         IF StrEq(action, "USE_TOOL") THEN "USE_TOOL"
         ELSE IF StrEq(action, "MULTI_TOOL") THEN "MULTI_TOOL"
         ELSE IF StrEq(action, "CREATE_FILE") THEN "CREATE_FILE"
         ELSE IF StrEq(action, "EDIT_FILE") THEN "EDIT_FILE"
         ELSE IF StrEq(action, "RUN_COMMAND") THEN "RUN_COMMAND"
         ELSE "ANSWER_QUESTION"

\* InteractiveMode._execute_tool_action
InteractiveMode_execute_tool_action(reg, d, f, env) ==
    LET tool_name == Get(d, "tool", PyNone)
        tool_params == Get(d, "parameters", PyDict(<<>>))
    IN
    IF tool_params.t # "dict"
    THEN Quiet(f, Explain(d), "TypeError", "-")          \* ** of a non-mapping
    ELSE OneCall(tool_name, tool_params.v,
                 execute_tool(reg, tool_name, tool_params.v, f, env), env,
                 Explain(d), NameText(tool_name), "-")

\* InteractiveMode._execute_multi_tool_action
InteractiveMode_execute_multi_tool_action(reg, d, f, envs) ==
    LET tools == Get(d, "tools", PyList(<<>>)) IN
    IF tools.t # "list"
    THEN Quiet(f, Explain(d), "TypeError", "-")          \* for over a non-iterable
    ELSE MultiToolLoop(reg, tools.v, 1, Quiet(f, Explain(d), "None", "-"), envs,
                       <<Say("dim", "Executando")>>)

\* InteractiveMode._handle_create_file
InteractiveMode_handle_create_file(reg, d, f, ans, env) ==
    LET filepath == Get(d, "path", PyNone)
        content == Get(d, "new_content", PyStr(<<>>))
        shown == <<Say("panel", "Criar Arquivo")>>
        kw == [file_path |-> filepath, content |-> content]
    IN
    IF Truthy(content) /\ content.t # "str"
    THEN Quiet(f, shown, "TypeError", "-")              \* content[:300]
    ELSE IF PromptAsk(ans) = "s"
    THEN OneCall(PyStr("write"), kw, execute_tool(reg, PyStr("write"), kw, f, env), env,
                 shown \o <<Say("prompt", "Criar arquivo?")>>,
                 "Arquivo criado", ans)
    ELSE Quiet(f, shown \o <<Say("prompt", "Criar arquivo?")>>, "None", ans)

\* InteractiveMode._handle_edit_file
InteractiveMode_handle_edit_file(reg, d, f, ans, env) ==
    LET filepath == Get(d, "path", PyNone)
        new_content == Get(d, "new_content", PyStr(<<>>))
        shown == <<Say("panel", "Editar Arquivo"), Say("prompt", "Aplicar edicao?")>>
        kw == [file_path |-> filepath, content |-> new_content]
    IN
    IF PromptAsk(ans) = "s"
    THEN OneCall(PyStr("write"), kw, execute_tool(reg, PyStr("write"), kw, f, env), env,
                 shown, "Arquivo editado", ans)
    ELSE Quiet(f, shown, "None", ans)

\* InteractiveMode._handle_run_command
InteractiveMode_handle_run_command(reg, d, f, ans, env) ==
    LET command == Get(d, "command", PyStr(<<>>))
        shown == <<Say("panel", "Executar Comando"), Say("prompt", "Executar comando?")>>
        kw == [command |-> command]
    IN
    IF PromptAsk(ans) = "s"
    THEN OneCall(PyStr("bash"), kw, execute_tool(reg, PyStr("bash"), kw, f, env), env,
                 shown, "Comando executado", ans)
    ELSE Quiet(f, shown, "None", ans)

\* InteractiveMode._show_answer
InteractiveMode_show_answer(d, f) ==
    LET answer_ == Get(d, "answer", PyStr(<<>>)) IN
    Quiet(f, IF Truthy(answer_) THEN <<Say("answer", answer_.v)>> ELSE <<>>, "None", "-")

----------------------------------------------------------------------------
(* Inputs: the filesystems the program starts on, what the model returns,  *)
(* what the user types                                                     *)

P_a == PyStr(<<"a.txt">>)
P_da == PyStr(<<"d", "a.txt">>)
P_db == PyStr(<<"d", "b.py">>)

\* The filesystems a run starts on: an empty directory, a directory with one
\* file in a subdirectory, and a git work tree with the three working files
InitFS ==
    { [files |-> [p \in AllPaths |-> NoFile], dirs |-> {}],
      [files |-> [p \in AllPaths |->
                    IF p = <<"d", "a.txt">> THEN File(<<"a", "b", "a">>) ELSE NoFile],
       dirs |-> { <<"d">> }],
      [files |-> [p \in AllPaths |->
                    CASE p = <<"a.txt">> -> File(<<"a", "b">>)
                      [] p = <<"d", "a.txt">> -> File(<<"a", "b", "a">>)
                      [] p = <<"d", "b.py">> -> File(<<"x", "=", "x">>)
                      [] OTHER -> NoFile],
       dirs |-> { <<"d">>, <<".git">> }] }

\* Sequences over S of length at most n
SeqUpTo(S, n) == UNION { [1..k -> S] : k \in 0..n }

\* Items of a multi_edit call: a missing file, two edits of the same file, a
\* text that is not there, an empty old_text, an item without new_text
EditItems ==
    { PyDict([file_path |-> P_a, old_text |-> PyStr(<<"a">>), new_text |-> PyStr(<<"b">>)]),
      PyDict([file_path |-> P_da, old_text |-> PyStr(<<"a">>), new_text |-> PyStr(<<"b", "b">>)]),
      PyDict([file_path |-> P_da, old_text |-> PyStr(<<"b", "b">>), new_text |-> PyStr(<<"a">>)]),
      PyDict([file_path |-> P_db, old_text |-> PyStr(<<"z", "z">>), new_text |-> PyStr(<<"a">>)]),
      PyDict([file_path |-> P_db, old_text |-> PyStr(<<"x">>)]) }

\* Commands of RUN_COMMAND directives and bash calls
Commands ==
    { <<"l", "s">>, <<"r", "m", " ", "-", "r", "f", " ", "/">>, <<"r", "m", " ", "-", "r", "f", " ", "*">>, <<"r", "m", " ", "-", "r", "f", " ", ".", "/", "d">>, <<"r", "e", "f", "o", "r", "m", "a", "t">>,
      <<"d", "e", "l", " ", "/", "f", " ", "/", "s", " ", "/", "q", " ", "x">>, <<>> }

\* Calls {tool, parameters} a USE_TOOL directive or a MULTI_TOOL entry makes
FileCalls ==
    { [tool |-> PyStr("read"), parameters |-> PyDict([file_path |-> P_da])],
      [tool |-> PyStr("read"), parameters |-> PyDict([file_path |-> PyInt(5)])],
      [tool |-> PyStr("read"), parameters |-> PyDict(<<>>)],
      [tool |-> PyStr("read"), parameters |-> PyDict([file_path |-> P_da, name |-> P_da])],
      [tool |-> PyStr("write"), parameters |-> PyDict([file_path |-> P_da, content |-> PyStr(<<"b">>)])],
      [tool |-> PyStr("write"), parameters |-> PyDict([file_path |-> P_a, content |-> PyStr(<<"b">>)])],
      [tool |-> PyStr("write"), parameters |-> PyDict([file_path |-> P_db, content |-> PyInt(5)])],
      [tool |-> PyStr("edit"), parameters |->
          PyDict([file_path |-> P_da, old_text |-> PyStr(<<"a">>), new_text |-> PyStr(<<"b">>)])],
      [tool |-> PyStr("edit"), parameters |->
          PyDict([file_path |-> P_da, old_text |-> PyStr(<<>>), new_text |-> PyStr(<<"b">>)])],
      [tool |-> PyStr("edit"), parameters |->
          PyDict([file_path |-> P_da, old_text |-> PyStr(<<"a">>), new_text |-> PyStr(<<"a", "a">>)])],
      [tool |-> PyStr("edit"), parameters |->
          PyDict([file_path |-> P_a, old_text |-> PyStr(<<"a", "b">>), new_text |-> PyStr(<<>>)])],
      [tool |-> PyStr("edit"), parameters |->
          PyDict([file_path |-> P_db, old_text |-> PyStr(<<"z", "z">>), new_text |-> PyStr(<<"b">>)])],
      [tool |-> PyStr("glob"), parameters |-> PyDict([pattern |-> PyStr(<<"*">>)])],
      [tool |-> PyStr("glob"), parameters |->
          PyDict([pattern |-> PyStr(<<"**", "*">>), recursive |-> PyBool(FALSE), extra |-> PyInt(5)])],
      [tool |-> PyStr("analyze"), parameters |-> PyDict([file_path |-> P_db])],
      [tool |-> PyStr("analyze"), parameters |-> PyDict([file_path |-> P_a])],
      [tool |-> PyStr("analyze"), parameters |-> PyDict(<<>>)] }

ProcessCalls ==
    { [tool |-> PyStr("bash"), parameters |-> PyDict([command |-> PyStr(c)])] : c \in Commands }
    \cup
    { [tool |-> PyStr("bash"), parameters |-> PyDict(<<>>)],
      [tool |-> PyStr("bash"), parameters |-> PyDict([command |-> PyInt(5)])],
      [tool |-> PyStr("git_status"), parameters |-> PyDict(<<>>)],
      [tool |-> PyStr("git_status"), parameters |-> PyDict([path |-> PyStr(<<"d">>)])],
      [tool |-> PyStr("git_diff"), parameters |-> PyDict([staged |-> PyBool(TRUE)])],
      [tool |-> PyStr("git_commit"), parameters |->
          PyDict([message |-> PyStr(<<"m">>), add_all |-> PyBool(TRUE)])],
      [tool |-> PyStr("git_commit"), parameters |-> PyDict([add_all |-> PyBool(TRUE)])],
      [tool |-> PyStr("grep"), parameters |-> PyDict([pattern |-> PyStr(<<"a">>)])],
      [tool |-> PyStr("grep"), parameters |-> PyDict([pattern |-> PyStr(<<"z", "z">>)])],
      [tool |-> PyStr("grep"), parameters |-> PyDict([pattern |-> PyStr(<<"[", "a">>)])],
      [tool |-> PyStr("grep"), parameters |-> PyDict(<<>>)] }

BatchCalls ==
    { [tool |-> PyStr("multi_edit"), parameters |-> PyDict([edits |-> PyList(l)])] :
          l \in SeqUpTo(EditItems, MaxEdits) }
    \cup
    { [tool |-> PyStr("multi_edit"), parameters |-> PyDict([edits |-> PyInt(5)])],
      [tool |-> PyStr("create_project"), parameters |->
          PyDict([project_name |-> PyStr(<<"d">>),
                  files |-> PyList(<< PyDict([path |-> PyStr(<<"a.txt">>), content |-> PyStr(<<"b">>)]),
                                      PyDict([path |-> PyStr(<<"b.py">>), content |-> PyStr(<<"x">>)]) >>)])],
      [tool |-> PyStr("create_project"), parameters |->
          PyDict([project_name |-> PyStr(<<"a.txt">>), files |-> PyList(<<>>)])],
      [tool |-> PyStr("create_project"), parameters |->
          PyDict([project_name |-> PyStr(<<"d">>),
                  files |-> PyList(<< PyDict([path |-> PyStr(<<"..", "a.txt">>), content |-> PyStr(<<"b">>)]) >>)])],
      [tool |-> PyStr("create_project"), parameters |->
          PyDict([project_name |-> PyStr(<<"d">>), files |-> PyList(<<>>)])],
      [tool |-> PyStr("create_project"), parameters |->
          PyDict([project_name |-> PyStr(<<"d">>),
                  files |-> PyList(<< PyDict([path |-> PyStr(<<"a.txt">>)]) >>)])],
      [tool |-> PyStr("refactor"), parameters |->
          PyDict([operations |-> PyList(<< PyDict([type |-> PyStr(<<"r", "e", "n", "a", "m", "e">>), file_path |-> P_db,
                                                  old_name |-> PyStr(<<"x">>), new_name |-> PyStr(<<"y">>)]) >>)])],
      [tool |-> PyStr("refactor"), parameters |->
          PyDict([operations |-> PyList(<< PyDict([type |-> PyStr(<<"r", "e", "n", "a", "m", "e">>), file_path |-> P_db,
                                                  old_name |-> PyStr(<<"x">>), new_name |-> PyStr(<<"s", ".", "x">>)]) >>)])],
      [tool |-> PyStr("refactor"), parameters |->
          PyDict([operations |-> PyList(<< PyDict([type |-> PyStr(<<"m", "o", "v", "e">>), file_path |-> P_db]) >>)])],
      [tool |-> PyStr("refactor"), parameters |->
          PyDict([operations |-> PyList(<< PyDict([type |-> PyStr(<<"r", "e", "n", "a", "m", "e">>)]) >>)])],
      [tool |-> PyStr("backup"), parameters |-> PyDict([files |-> PyList(<<P_a, P_db>>)])],
      [tool |-> PyStr("backup"), parameters |-> PyDict([files |-> PyList(<<P_da>>)])],
      [tool |-> PyStr("backup"), parameters |-> PyDict([files |-> PyList(<<P_a, P_da>>)])],
      [tool |-> PyStr("backup"), parameters |->
          PyDict([files |-> PyList(<<P_a>>), backup_dir |-> PyStr(<<"a.txt">>)])],
      [tool |-> PyStr("backup"), parameters |-> PyDict(<<>>)] }

OddCalls ==
    { [tool |-> PyStr("nonexistent"), parameters |-> PyDict(<<>>)],
      [tool |-> PyStr("nonexistent"), parameters |-> PyDict([name |-> P_da])],
      [tool |-> PyStr("read"), parameters |-> PyNone],
      [parameters |-> PyDict([file_path |-> P_da])] }

ToolCalls == FileCalls \cup ProcessCalls \cup BatchCalls \cup OddCalls

\* A tools-list entry that lists every file of the tree
GlobEntry ==
    PyDict([tool |-> PyStr("glob"), parameters |-> PyDict([pattern |-> PyStr(<<"**", "*">>)])])

\* A tools-list entry that creates the project d with two files
ProjectEntry ==
    PyDict([tool |-> PyStr("create_project"), parameters |->
        PyDict([project_name |-> PyStr(<<"d">>),
                files |-> PyList(<< PyDict([path |-> PyStr(<<"a.txt">>), content |-> PyStr(<<"b">>)]),
                                    PyDict([path |-> PyStr(<<"b.py">>), content |-> PyStr(<<"x">>)]) >>)])])

\* Entries of the tools list of a MULTI_TOOL directive: a read (that fails
\* when the file is missing), a write, a command, an unknown tool without
\* parameters, and malformed entries
ToolEntries ==
    { PyDict([tool |-> PyStr("read"), parameters |-> PyDict([file_path |-> P_da])]),
      PyDict([tool |-> PyStr("write"), parameters |-> PyDict([file_path |-> P_db, content |-> PyStr(<<"a">>)])]),
      PyDict([tool |-> PyStr("bash"), parameters |-> PyDict([command |-> PyStr(<<"l", "s">>)])]),
      PyDict([tool |-> PyStr("nonexistent")]),
      PyDict([tool |-> PyStr("read"), parameters |-> PyNone]),
      PyStr(<<"l", "s">>) }

\* The JSON values the model's text can decode to
Directives ==
    { PyDict([action |-> PyStr("USE_TOOL")] @@ c) : c \in ToolCalls }
    \cup
    { PyDict([action |-> PyStr("MULTI_TOOL"), tools |-> PyList(l), explanation |-> PyStr(<<"x">>)]) :
          l \in SeqUpTo(ToolEntries, MaxTools) }
    \cup
    { PyDict([action |-> PyStr("CREATE_FILE"), path |-> p, new_content |-> PyStr(<<"b">>)]) :
          p \in {P_a, P_da} }
    \cup
    { PyDict([action |-> PyStr("EDIT_FILE"), path |-> p, new_content |-> PyStr(<<"b">>)]) :
          p \in {P_a, P_da} }
    \cup
    { PyDict([action |-> PyStr("RUN_COMMAND"), command |-> PyStr(c)]) : c \in Commands }
    \cup
    { PyDict([action |-> PyStr("CREATE_FILE"), new_content |-> PyStr(<<"b">>)]),
      PyDict([action |-> PyStr("CREATE_FILE"), path |-> P_db, new_content |-> PyInt(5)]),
      PyDict([action |-> PyStr("MULTI_TOOL"), tools |-> PyInt(5)]),
      PyDict([action |-> PyStr("MULTI_TOOL"), tools |-> PyList(<<ProjectEntry, ProjectEntry>>)]),
      PyDict([action |-> PyStr("MULTI_TOOL"), tools |-> PyList(<<GlobEntry, GlobEntry>>)]),
      PyDict([action |-> PyStr("ANSWER_QUESTION"), answer |-> PyStr(<<"hi">>)]),
      PyDict([action |-> PyStr("DELETE_FILE"), path |-> P_da]),
      PyDict([action |-> PyInt(5), answer |-> PyStr(<<"hi">>)]),
      PyDict([tool |-> PyStr("write"), parameters |-> PyDict([file_path |-> P_da, content |-> PyStr(<<"b">>)])]),
      PyDict(<<>>),
      PyList(<<PyInt(1)>>),
      PyInt(5),
      PyStr(<<"hi">>),
      PyNone }

\* What one call of the model yields
ModelOutcomes ==
    { [kind |-> "raise", text |-> "quota", json |-> FALSE, value |-> PyNone],
      [kind |-> "text", text |-> "prose", json |-> FALSE, value |-> PyNone] }
    \cup
    { [kind |-> "text", text |-> "json", json |-> TRUE, value |-> v] : v \in Directives }

\* What the user types at a confirmation prompt
Answers == { "s", "S", "n", "" }

----------------------------------------------------------------------------
(* The state machine *)

Init ==
    /\ fs \in InitFS
    /\ mode \in {"oneshot", "interactive"}
    /\ pc = "ready"
    /\ turns = 0
    /\ raw = [kind |-> "none", text |-> "", json |-> FALSE, value |-> PyNone]
    /\ response = PyNone
    /\ handler = "none"
    /\ answer = "-"
    /\ calls = <<>>
    /\ results = <<>>
    /\ trace = <<>>
    /\ spawned = <<>>
    /\ exc = "None"
    /\ fsBefore = fs
    /\ registry = DefaultTools
    /\ exitStatus = 0
    /\ conversation_history = <<>>
    /\ memory_file = <<>>
    /\ recorded = 0
    /\ registered = DefaultTools

\* The request half of GeminiCoder.run_single_command and of
\* InteractiveMode._process_request: call the model, keep its response;
\* run_single_command also records the turn in the conversation memory
ProcessRequest ==
    /\ pc = "ready"
    /\ turns < (IF mode = "oneshot" THEN 1 ELSE MaxTurns)
    /\ \E outcome \in ModelOutcomes :
         /\ raw' = outcome
         /\ response' = process_request(outcome)
    /\ pc' = "responded"
    /\ turns' = turns + 1
    /\ handler' = "none"
    /\ answer' = "-"
    /\ calls' = <<>>
    /\ results' = <<>>
    /\ trace' = <<>>
    /\ spawned' = <<>>
    /\ exc' = "None"
    /\ fsBefore' = fs
    /\ IF mode = "oneshot"
       THEN /\ conversation_history' =
                   add_conversation_entry(conversation_history, recorded + 1)
            /\ memory_file' = save_memory(conversation_history')
            /\ recorded' = recorded + 1
       ELSE UNCHANGED <<conversation_history, memory_file, recorded>>
    /\ UNCHANGED <<fs, mode, registry, exitStatus, registered>>

\* The end of a handler.  In one-shot mode an exception reaches main(), which
\* prints it and exits with status 1; otherwise main() returns.  In
\* interactive mode _process_request prints it and the loop goes on.
Handled(kind, out) ==
    /\ handler' = kind
    /\ fsBefore' = fs
    /\ fs' = out.fs
    /\ answer' = out.answer
    /\ calls' = out.calls
    /\ results' = out.results
    /\ spawned' = out.spawned
    /\ exc' = out.exc
    /\ trace' = IF out.exc = "None" THEN out.trace
                  ELSE out.trace \o <<Say("error", out.exc)>>
    /\ pc' = IF mode = "oneshot" THEN "exited" ELSE "ready"
    /\ exitStatus' = IF mode = "oneshot" /\ out.exc # "None" THEN 1 ELSE 0
    /\ UNCHANGED <<mode, turns, raw, response, registry,
                   conversation_history, memory_file, recorded, registered>>

OneShot(kind) ==
    /\ pc = "responded"
    /\ mode = "oneshot"
    /\ GeminiCoder_handle_response(response) = kind

Interactive(kind) ==
    /\ pc = "responded"
    /\ mode = "interactive"
    /\ InteractiveMode_handle_ai_response(response) = kind

\* What the operating system answers to the calls of one batch, call by
\* call; its condition lasts for the batch
EnvSeqs == { [i \in 1..MaxTools |-> env] : env \in Envs }

GC_ResponseRaises ==
    /\ OneShot("raise")
    /\ Handled("none", Quiet(fs, <<>>, "AttributeError", "-"))

GC_CreateFile ==
    /\ OneShot("CREATE_FILE")
    /\ \E ans \in Answers, env \in Envs :
         Handled("CREATE_FILE", GeminiCoder_handle_create_file(registry, response.v, fs, ans, env))

GC_EditFile ==
    /\ OneShot("EDIT_FILE")
    /\ \E ans \in Answers, env \in Envs :
         Handled("EDIT_FILE", GeminiCoder_handle_edit_file(registry, response.v, fs, ans, env))

GC_RunCommand ==
    /\ OneShot("RUN_COMMAND")
    /\ \E ans \in Answers, env \in Envs :
         Handled("RUN_COMMAND", GeminiCoder_handle_run_command(registry, response.v, fs, ans, env))

GC_ToolUse ==
    /\ OneShot("USE_TOOL")
    /\ \E env \in Envs :
         Handled("USE_TOOL", GeminiCoder_handle_tool_use(registry, response.v, fs, env))

GC_MultiTool ==
    /\ OneShot("MULTI_TOOL")
    /\ \E envs \in EnvSeqs :
         Handled("MULTI_TOOL", GeminiCoder_handle_multi_tool(registry, response.v, fs, envs))

GC_Answer ==
    /\ OneShot("ANSWER_QUESTION")
    /\ Handled("ANSWER_QUESTION", GeminiCoder_handle_answer(response.v, fs))

IM_ResponseRaises ==
    /\ Interactive("raise")
    /\ Handled("none", Quiet(fs, <<>>, "AttributeError", "-"))

IM_CreateFile ==
    /\ Interactive("CREATE_FILE")
    /\ \E ans \in Answers \ {"S"}, env \in Envs :
         Handled("CREATE_FILE", InteractiveMode_handle_create_file(registry, response.v, fs, ans, env))

IM_EditFile ==
    /\ Interactive("EDIT_FILE")
    /\ \E ans \in Answers \ {"S"}, env \in Envs :
         Handled("EDIT_FILE", InteractiveMode_handle_edit_file(registry, response.v, fs, ans, env))

IM_RunCommand ==
    /\ Interactive("RUN_COMMAND")
    /\ \E ans \in Answers \ {"S"}, env \in Envs :
         Handled("RUN_COMMAND", InteractiveMode_handle_run_command(registry, response.v, fs, ans, env))

IM_ToolUse ==
    /\ Interactive("USE_TOOL")
    /\ \E env \in Envs :
         Handled("USE_TOOL", InteractiveMode_execute_tool_action(registry, response.v, fs, env))

IM_MultiTool ==
    /\ Interactive("MULTI_TOOL")
    /\ \E envs \in EnvSeqs :
         Handled("MULTI_TOOL", InteractiveMode_execute_multi_tool_action(registry, response.v, fs, envs))

IM_Answer ==
    /\ Interactive("ANSWER_QUESTION")
    /\ Handled("ANSWER_QUESTION", InteractiveMode_show_answer(response.v, fs))

\* InteractiveMode.start: the user types exit (or the input ends)
IM_Exit ==
    /\ pc = "ready"
    /\ mode = "interactive"
    /\ pc' = "exited"
    /\ exitStatus' = 0
    /\ UNCHANGED <<fs, mode, turns, raw, response, handler, answer, calls, results,
                   trace, spawned, exc, fsBefore, registry,
                   conversation_history, memory_file, recorded, registered>>

Next ==
    \/ ProcessRequest
    \/ GC_ResponseRaises
    \/ GC_CreateFile
    \/ GC_EditFile
    \/ GC_RunCommand
    \/ GC_ToolUse
    \/ GC_MultiTool
    \/ GC_Answer
    \/ IM_ResponseRaises
    \/ IM_CreateFile
    \/ IM_EditFile
    \/ IM_RunCommand
    \/ IM_ToolUse
    \/ IM_MultiTool
    \/ IM_Answer
    \/ IM_Exit

Spec == Init /\ [][Next]_vars

----------------------------------------------------------------------------
(* The conversation memory over the life of one memory file: processes    *)
(* that start on the file, record turns and end                            *)

\* Everything but the conversation memory and the position of the process
Rest ==
    <<fs, mode, turns, raw, response, handler, answer, calls, results, trace,
      spawned, exc, fsBefore, registry, exitStatus, registered>>

\* A first process, started where no memory file exists
MemInit ==
    /\ Init
    /\ mode = "oneshot"
    /\ fs.dirs = {}

\* ContextManager.add_conversation_entry, with the save_memory that ends it
CM_AddConversationEntry ==
    /\ pc = "ready"
    /\ recorded < MaxRecorded
    /\ conversation_history' = add_conversation_entry(conversation_history, recorded + 1)
    /\ memory_file' = save_memory(conversation_history')
    /\ recorded' = recorded + 1
    /\ UNCHANGED <<pc, Rest>>

\* The process ends; what it held in memory is gone
CM_Exit ==
    /\ pc = "ready"
    /\ pc' = "exited"
    /\ conversation_history' = <<>>
    /\ UNCHANGED <<memory_file, recorded, Rest>>

\* A next process starts on the same file: ContextManager.__init__ reads it
\* with load_memory, and load_project_context ends with save_memory
CM_Start ==
    /\ pc = "exited"
    /\ pc' = "ready"
    /\ conversation_history' = load_memory(memory_file)
    /\ memory_file' = save_memory(conversation_history')
    /\ UNCHANGED <<recorded, Rest>>

MemNext ==
    \/ CM_AddConversationEntry
    \/ CM_Exit
    \/ CM_Start

MemorySpec == MemInit /\ [][MemNext]_vars

----------------------------------------------------------------------------
(* The registry under further register calls                               *)

\* Tools an application registers on top of the default ones: replacements
\* for the read tool and tools under a new name
NewTools ==
    { [name |-> "read", impl |-> "ReadTool"],
      [name |-> "read", impl |-> "CachedReadTool"],
      [name |-> "fetch", impl |-> "FetchTool"],
      [name |-> "fetch", impl |-> "CachedFetchTool"] }

\* Everything but the registry
Untouched ==
    <<fs, mode, pc, turns, raw, response, handler, answer, calls, results,
      trace, spawned, exc, fsBefore, exitStatus,
      conversation_history, memory_file, recorded>>

\* The registry as the import of the tools package leaves it
RegInit ==
    /\ Init
    /\ mode = "interactive"
    /\ fs.dirs = {}

\* registry.register(tool)
Register ==
    /\ Len(registered) < Len(DefaultTools) + MaxRegistered
    /\ \E tool \in NewTools :
         /\ registry' = register(registry, tool)
         /\ registered' = Append(registered, tool)
    /\ UNCHANGED Untouched

RegNext == Register

RegistrySpec == RegInit /\ [][RegNext]_vars

----------------------------------------------------------------------------
(* Properties *)

\* The last request has been handled
Done == turns > 0 /\ pc # "responded"

\* Names of the registered tools
Registered == { registry[i].name : i \in 1..Len(registry) }

\* The handler reported an error
ErrorReported == \E i \in 1..Len(trace) : trace[i].kind = "error"

\* The k-th registry call of the last handler returned this result
\* (calls that raised to the handler are last and have none)
ResultOf(k) == results[k]

\* C1: ToolRegistry.execute_tool never raises to its caller: every call with
\* a registered tool name and an argument mapping returns a ToolResult, and a
\* call whose execute raised returns success = false with an error.
C1_RegistryNeverRaises ==
    \A k \in 1..Len(calls) :
        calls[k].name \in Registered =>
            /\ calls[k].escaped = "None"
            /\ k <= Len(results)
            /\ (ResultOf(k).error.kind = "Erro ao executar ferramenta" =>
                    ~ResultOf(k).success /\ ResultOf(k).error # NoError)

\* C2: every ToolResult a tool or the registry returns has its error set if
\* and only if success is false.
C2_ErrorIffFailure ==
    \A k \in 1..Len(results) :
        (results[k].error # NoError) <=> ~results[k].success

\* The path a CREATE_FILE directive names exists when its handler starts
CreateTargetExists ==
    /\ Done
    /\ handler = "CREATE_FILE"
    /\ "path" \in DOMAIN response.v
    /\ response.v["path"].t = "str"
    /\ PathExists(fsBefore, response.v["path"].v)

\* C3: a CREATE_FILE directive whose target path already exists is refused
\* in both modes: an error is reported, the write tool is not invoked and
\* the filesystem is left as it was.
C3_CreateRefusesExisting ==
    CreateTargetExists => ErrorReported /\ calls = <<>> /\ fs = fsBefore

\* The user's answer at the confirmation prompt accepts
Affirmative ==
    IF mode = "oneshot" THEN answer \in {"s", "S"} ELSE answer \in {"s", ""}

\* C4: for EDIT_FILE and RUN_COMMAND the tool (write, respectively bash) is
\* invoked only after the confirmation prompt was shown and answered yes;
\* after any other answer no tool is invoked, no process is spawned, the
\* filesystem is unchanged and nothing is reported as an error.
C4_ConfirmBeforeMutate ==
    (Done /\ handler \in {"EDIT_FILE", "RUN_COMMAND"}) =>
        /\ answer # "-"
        /\ Len(calls) = Cardinality({ j \in 1..Len(trace) : trace[j].kind = "call" })
        /\ \A j \in 1..Len(trace) :
              trace[j].kind = "call" =>
                  /\ \E i \in 1..(j - 1) : trace[i].kind = "prompt"
                  /\ Affirmative
                  /\ trace[j].text = (IF handler = "EDIT_FILE" THEN "write" ELSE "bash")
        /\ (~Affirmative =>
              /\ calls = <<>>
              /\ spawned = <<>>
              /\ fs = fsBefore
              /\ ~ErrorReported
              /\ exc = "None")

\* C4 witness: an EDIT_FILE directive was confirmed and the write changed the file
C4_Witness ==
    /\ Done
    /\ handler = "EDIT_FILE"
    /\ Affirmative
    /\ Len(calls) = 1
    /\ fs # fsBefore

\* C5: for a MULTI_TOOL directive every entry of the tools list is executed
\* through the registry exactly once, in listed order, also after an entry
\* that failed or was malformed, and each entry's outcome is reported.
C5_MultiToolRunsEveryEntry ==
    (Done /\ handler = "MULTI_TOOL" /\ Get(response.v, "tools", PyList(<<>>)).t = "list") =>
        LET tools == Get(response.v, "tools", PyList(<<>>)).v IN
        /\ Len(calls) = Len(tools)
        /\ Len(results) = Len(tools)
        /\ \A k \in 1..Len(tools) :
              tools[k].t = "dict" => calls[k].name = NameText(Get(tools[k].v, "tool", PyNone))
        /\ Cardinality({ j \in 1..Len(trace) : trace[j].kind \in {"ok", "error"} }) = Len(tools)

\* The six action names
ActionNames ==
    { "USE_TOOL", "MULTI_TOOL", "CREATE_FILE", "EDIT_FILE", "RUN_COMMAND", "ANSWER_QUESTION" }

\* The decoded JSON value has one of the six directive shapes
IsDirective(v) ==
    /\ v.t = "dict"
    /\ "action" \in DOMAIN v.v
    /\ v.v["action"].t = "str"
    /\ v.v["action"].v \in ActionNames

\* C6: whatever the model call yields - an exception, text that is not JSON,
\* JSON that is not a directive - the dispatcher handles an ANSWER_QUESTION
\* directive (carrying the raw text or the error text when the client built
\* it) and no exception leaves the dispatcher.
C6_ModelFailureBecomesAnswer ==
    (Done /\ (raw.kind = "raise" \/ ~raw.json \/ ~IsDirective(raw.value))) =>
        /\ handler = "ANSWER_QUESTION"
        /\ exc = "None"
        /\ ((raw.kind = "raise" \/ ~raw.json) =>
               \E i \in 1..Len(trace) :
                   /\ trace[i].kind = "answer"
                   /\ trace[i].text[Len(trace[i].text)] = raw.text)

\* The handler the action field selects
ExpectedHandler(d) ==
    LET action == Get(d, "action", PyStr("ANSWER_QUESTION")) IN
    IF action.t = "str" /\ action.v \in ActionNames THEN action.v ELSE "ANSWER_QUESTION"

RECURSIVE EditsApplied(_, _, _)
EditsApplied(edits, f, ioerr) ==
    IF edits = <<>> THEN 0
    ELSE LET e == Head(edits).v
             applies == /\ e["file_path"].t = "str"
                        /\ e["file_path"].v \in AllPaths
                        /\ f.files[e["file_path"].v].exists
                        /\ e["old_text"].t = "str"
                        /\ Contains(e["old_text"].v, f.files[e["file_path"].v].content)
                        /\ e["new_text"].t = "str"
                        /\ ~ioerr
             g == IF applies
                  THEN WriteFile(f, e["file_path"].v,
                                 Replace(f.files[e["file_path"].v].content,
                                         e["old_text"].v, e["new_text"].v))
                  ELSE f
         IN (IF applies THEN 1 ELSE 0) + EditsApplied(Tail(edits), g, ioerr)

\* A multi_edit call made by USE_TOOL returned from MultiEditTool.execute
MultiEditReturned ==
    /\ Done
    /\ handler = "USE_TOOL"
    /\ Len(calls) = 1
    /\ Len(results) = 1
    /\ calls[1].invoked = "MultiEditTool"
    /\ results[1].metadata.kind = "multi_edit"

\* C8: multi_edit returns success = true iff at least one item was applied;
\* total_edits is the number of items given and successful_edits the number
\* of items whose file existed, contained old_text and was rewritten.
C8_MultiEditAccounting ==
    MultiEditReturned =>
        LET edits == calls[1].kw["edits"].v
            n == EditsApplied(edits, fsBefore, calls[1].env.ioerr)
        IN /\ results[1].success <=> (n > 0)
           /\ results[1].metadata.total_edits = Len(edits)
           /\ results[1].metadata.successful_edits = n

\* C8 witness: the first item targets a missing file, the second is valid:
\* success = true, successful_edits = 1, total_edits = 2
C8_Witness ==
    /\ MultiEditReturned
    /\ Len(calls[1].kw["edits"].v) = 2
    /\ ~PathExists(fsBefore, calls[1].kw["edits"].v[1].v["file_path"].v)
    /\ results[1].success
    /\ results[1].metadata.successful_edits = 1
    /\ results[1].metadata.total_edits = 2
    /\ fs # fsBefore

\* A grep call with a str pattern was the only call of the last handler
GrepCalled ==
    /\ Done
    /\ Len(calls) = 1
    /\ Len(results) = 1
    /\ calls[1].invoked = "GrepTool"
    /\ "pattern" \in DOMAIN calls[1].kw
    /\ calls[1].kw["pattern"].t = "str"

\* C9: grep tells no-match from error: a valid pattern that matches nothing
\* gives success = true with an empty result sequence, a malformed pattern
\* gives success = false with an error, whichever backend is installed.
C9_GrepNoMatchIsSuccess ==
    GrepCalled =>
        LET pattern == calls[1].kw["pattern"].v IN
        /\ (IsValidPattern(pattern) /\ GrepReturnCode(pattern, fsBefore, calls[1].env) = 1) =>
               /\ results[1].success
               /\ results[1].error = NoError
               /\ results[1].content.kind = "list"
               /\ results[1].content.items = <<>>
        /\ ~IsValidPattern(pattern) =>
               /\ ~results[1].success
               /\ results[1].error # NoError

\* The denylisted texts
Denylist ==
    { <<"r", "m", " ", "-", "r", "f", " ", "/">>,
      <<"r", "m", " ", "-", "r", "f", " ", "*">>,
      <<"f", "o", "r", "m", "a", "t">>,
      <<"d", "e", "l", " ", "/", "f", " ", "/", "s", " ", "/", "q">> }

\* A bash call whose command contains a denylisted text was the only call of
\* the last handler
DenylistedBashCalled ==
    /\ Done
    /\ Len(calls) = 1
    /\ calls[1].invoked = "BashTool"
    /\ "command" \in DOMAIN calls[1].kw
    /\ calls[1].kw["command"].t = "str"
    /\ \E text \in Denylist : Contains(text, calls[1].kw["command"].v)

\* C10: bash rejects a command containing a denylisted text with
\* success = false before any subprocess is spawned: no process runs and the
\* filesystem is unchanged.
C10_DenylistBlocksBeforeSpawn ==
    DenylistedBashCalled =>
        /\ Len(results) = 1
        /\ ~results[1].success
        /\ spawned = <<>>
        /\ fs = fsBefore

\* C10 witness: "rm -rf /" was refused on a filesystem that has files
C10_Witness ==
    /\ DenylistedBashCalled
    /\ calls[1].kw["command"].v = <<"r", "m", " ", "-", "r", "f", " ", "/">>
    /\ fsBefore.files[<<"a.txt">>].exists
    /\ ~results[1].success
    /\ spawned = <<>>

\* Call k reached subprocess.run of BashTool.execute: its keywords bind, the
\* command is a non-empty text without a denylisted part
BashRan(k) ==
    /\ k <= Len(results)
    /\ calls[k].invoked = "BashTool"
    /\ BindsTo("BashTool", calls[k].kw)
    /\ "command" \in DOMAIN calls[k].kw
    /\ calls[k].kw["command"].t = "str"
    /\ calls[k].kw["command"].v # <<>>
    /\ ~\E text \in Denylist : Contains(text, calls[k].kw["command"].v)

\* C11: a bash command that outlives the timeout yields success = false with
\* the timeout error and no content; a command that ends in time yields
\* content with stdout, stderr and the return code, success = (code = 0) and
\* never the timeout error, so the two outcomes differ.
C11_TimeoutDistinctFromExit ==
    \A k \in 1..Len(calls) :
        BashRan(k) =>
            IF calls[k].env.timeout
            THEN /\ ~results[k].success
                 /\ results[k].error.kind = "Comando excedeu timeout"
                 /\ results[k].content = NoContent
            ELSE /\ results[k].success <=> (calls[k].env.rc = 0)
                 /\ results[k].content.kind = "map"
                 /\ DOMAIN results[k].content = {"kind", "stdout", "stderr", "returncode"}
                 /\ results[k].content.returncode = calls[k].env.rc
                 /\ results[k].error.kind # "Comando excedeu timeout"

\* C11 witness: a spawned command ran into the timeout
C11_Witness ==
    /\ Done
    /\ Len(calls) = 1
    /\ BashRan(1)
    /\ calls[1].env.timeout
    /\ spawned # <<>>
    /\ ~results[1].success

\* Call k is an edit with text arguments on a file that exists
EditCalled(k) ==
    /\ k <= Len(results)
    /\ calls[k].invoked = "EditTool"
    /\ BindsTo("EditTool", calls[k].kw)
    /\ calls[k].kw["file_path"].t = "str"
    /\ calls[k].kw["file_path"].v \in AllPaths
    /\ calls[k].kw["old_text"].t = "str"
    /\ calls[k].kw["new_text"].t = "str"

\* The characters of a text
Chars(s) == { s[i] : i \in 1..Len(s) }

\* C12: edit on an existing file that contains a non-empty old_text, when the
\* write goes through, succeeds, reports as replacements the number n >= 1 of
\* occurrences of old_text in the content before, and leaves a content in
\* which each of them is replaced: its length differs by n times the
\* difference of the two texts, new_text occurs at least n times, and when
\* new_text is not empty and shares no character with old_text no occurrence
\* of old_text is left.
C12_EditReplacesEveryOccurrence ==
    (Done /\ Len(calls) = 1 /\ EditCalled(1)) =>
        LET path == calls[1].kw["file_path"].v
            old_text == calls[1].kw["old_text"].v
            new_text == calls[1].kw["new_text"].v
            before == fsBefore.files[path].content
            after == fs.files[path].content
            n == Count(before, old_text)
        IN (/\ fsBefore.files[path].exists
            /\ old_text # <<>>
            /\ Contains(old_text, before)
            /\ ~calls[1].env.ioerr) =>
               /\ results[1].success
               /\ n >= 1
               /\ results[1].metadata.kind = "edit"
               /\ results[1].metadata.replacements = n
               /\ fs.files[path].exists
               /\ Len(after) = Len(before) + n * (Len(new_text) - Len(old_text))
               /\ (new_text # <<>> => Count(after, new_text) >= n)
               /\ (new_text # <<>> /\ Chars(new_text) \cap Chars(old_text) = {} =>
                       ~Contains(old_text, after))
               /\ \A p \in AllPaths \ {path} : fs.files[p] = fsBefore.files[p]

\* C12 witness: an edit replaced two occurrences
C12_Witness ==
    /\ Done
    /\ Len(calls) = 1
    /\ EditCalled(1)
    /\ results[1].success
    /\ results[1].metadata.replacements = 2
    /\ Count(fsBefore.files[calls[1].kw["file_path"].v].content, calls[1].kw["old_text"].v) = 2
    /\ ~Contains(calls[1].kw["old_text"].v, fs.files[calls[1].kw["file_path"].v].content)

\* C13: edit on a missing file, or on a file whose content does not contain
\* old_text, returns success = false with an error and writes nothing: every
\* file and directory is what it was before the call.
C13_EditFailureWritesNothing ==
    (Done /\ Len(calls) = 1 /\ EditCalled(1)) =>
        LET path == calls[1].kw["file_path"].v
            old_text == calls[1].kw["old_text"].v
        IN (\/ ~fsBefore.files[path].exists
            \/ ~Contains(old_text, fsBefore.files[path].content)) =>
               /\ ~results[1].success
               /\ results[1].error # NoError
               /\ fs = fsBefore

\* C13 witness: an edit of an existing file that lacks old_text failed
C13_Witness ==
    /\ Done
    /\ Len(calls) = 1
    /\ EditCalled(1)
    /\ fsBefore.files[calls[1].kw["file_path"].v].exists
    /\ ~Contains(calls[1].kw["old_text"].v, fsBefore.files[calls[1].kw["file_path"].v].content)
    /\ ~results[1].success
    /\ fs = fsBefore

\* C14: edit called with an empty old_text is rejected (success = false) and
\* leaves every file unchanged.
C14_EditRejectsEmptyOldText ==
    (Done /\ Len(calls) = 1 /\ EditCalled(1) /\ calls[1].kw["old_text"].v = <<>>) =>
        /\ ~results[1].success
        /\ fs = fsBefore

\* Call k is a write of a text to one of the working paths, made while the
\* operating system lets files be opened for writing
WritableWriteCalled(k) ==
    /\ k <= Len(calls)
    /\ calls[k].invoked = "WriteTool"
    /\ BindsTo("WriteTool", calls[k].kw)
    /\ calls[k].kw["file_path"].t = "str"
    /\ calls[k].kw["file_path"].v \in FilePaths
    /\ calls[k].kw["content"].t = "str"
    /\ ~calls[k].env.ioerr

\* C15: write succeeds for every writable target path, with or without a
\* directory part, whether or not the file exists; afterwards the parent
\* directories exist and the file's content equals the content argument.
C15_WriteAnyPath ==
    (Done /\ Len(calls) = 1 /\ WritableWriteCalled(1)) =>
        LET path == calls[1].kw["file_path"].v IN
        /\ Len(results) = 1
        /\ results[1].success
        /\ fs.files[path] = File(calls[1].kw["content"].v)
        /\ \A k \in 1..(Len(path) - 1) : SubSeq(path, 1, k) \in fs.dirs

\* Call k is a call of a git tool, with a text (or no) path, in a working
\* directory without a .git entry
GitCalledOutsideRepository(k) ==
    /\ k <= Len(calls)
    /\ calls[k].invoked \in {"GitStatusTool", "GitDiffTool", "GitCommitTool"}
    /\ BindsTo(calls[k].invoked, calls[k].kw)
    /\ Get(calls[k].kw, "path", PyStr(<<".">>)).t = "str"
    /\ ~HasGitEntry(fsBefore, Get(calls[k].kw, "path", PyStr(<<".">>)))

\* C16: git_status, git_diff and git_commit return success = false without
\* running a git subprocess when the working directory has no .git entry.
C16_GitToolsFailFast ==
    (Done /\ Len(calls) = 1 /\ GitCalledOutsideRepository(1)) =>
        /\ Len(results) = 1
        /\ ~results[1].success
        /\ spawned = <<>>

\* C17: execute_tool with a name that is not registered returns
\* success = false with an error that carries the name, runs no tool's
\* execute, and changes neither the registry nor the filesystem.
C17_UnknownToolFails ==
    \A k \in 1..Len(calls) :
        calls[k].name \notin Registered =>
            /\ calls[k].escaped = "None"
            /\ calls[k].invoked = "None"
            /\ k <= Len(results)
            /\ ~results[k].success
            /\ results[k].error = Error("Ferramenta nao encontrada", calls[k].name)
            /\ (Len(calls) = 1 => fs = fsBefore /\ spawned = <<>>)
            /\ registry = DefaultTools

\* C18: in one-shot mode, once configuration validation has passed, the
\* process exits with status zero whatever directive the model returned and
\* whatever the tools or the model call did.
C18_OneShotExitsZero ==
    (mode = "oneshot" /\ pc = "exited") => exitStatus = 0

\* The turns 1..n, each named by its number
Turns(n) == [i \in 1..n |-> i]

\* C19: while a process runs, having loaded and recorded n turns in total (it
\* holds the most recent min(n, 100) of them), the memory file holds those
\* most recent min(n, 100) turns in order, so that a process started on the
\* file reads back exactly them.
C19_MemoryKeepsLastHundred ==
    pc = "ready" =>
        /\ Len(conversation_history) <= KeptEntries
        /\ memory_file = LastN(Turns(recorded), Len(conversation_history))
        /\ load_memory(memory_file) = conversation_history

\* The last handler ran create_project twice with the same arguments, and
\* both calls returned a result
ProjectTwice ==
    /\ Done
    /\ handler = "MULTI_TOOL"
    /\ Len(calls) = 2
    /\ Len(results) = 2
    /\ calls[1].invoked = "CreateProjectTool"
    /\ calls[2].invoked = "CreateProjectTool"
    /\ calls[1].kw = calls[2].kw

\* C20: a second create_project with the same project_name does not fail on
\* the directory the first one made, and writes each declared file again: it
\* reports the same success, error and files_created as the first call and
\* leaves the files as the first call left them.
C20_CreateProjectTwice ==
    ProjectTwice =>
        /\ results[2].success = results[1].success
        /\ results[2].error = results[1].error
        /\ results[2].metadata = results[1].metadata
        /\ fs = CreateProjectTool_execute(calls[1].kw, fsBefore, calls[1].env).fs

\* C20 witness: the project directory did not exist before the first call;
\* both calls wrote the two declared files
C20_Witness ==
    /\ ProjectTwice
    /\ <<"d">> \notin fsBefore.dirs
    /\ <<"d">> \in fs.dirs
    /\ results[1].success
    /\ results[2].success
    /\ results[2].metadata.files_created = 2
    /\ fs.files[<<"d", "a.txt">>].content = <<"b">>

\* Call k of the last handler is a glob that returned a list
GlobReturned(k) ==
    /\ k <= Len(results)
    /\ calls[k].invoked = "GlobTool"
    /\ results[k].success
    /\ results[k].content.kind = "list"

\* C21: glob returns only regular files, in lexicographically sorted order,
\* and two successive calls with the same pattern over an unchanged tree
\* return identical sequences.
C21_GlobSortedFilesRepeatable ==
    (Done /\ fs = fsBefore) =>
        \A k \in 1..Len(calls) :
            GlobReturned(k) =>
                LET items == results[k].content.items IN
                /\ \A i \in 1..Len(items) : IsFile(fs, items[i])
                /\ \A i \in 1..Len(items) : \A j \in (i + 1)..Len(items) :
                       ~StrLess(PathText(items[j]), PathText(items[i]))
                /\ results[k].metadata.count = Len(items)
                /\ (GlobReturned(k + 1) /\ calls[k + 1].kw = calls[k].kw) =>
                       results[k + 1].content = results[k].content

\* C21 witness: two successive globs over a tree of three files and a
\* directory, scanned in descending order, both return the three files
C21_Witness ==
    /\ Done
    /\ fs = fsBefore
    /\ GlobReturned(1)
    /\ GlobReturned(2)
    /\ calls[1].kw = calls[2].kw
    /\ calls[1].env.scan = "backward"
    /\ results[2].content.items = << <<"a.txt">>, <<"d", "a.txt">>, <<"d", "b.py">> >>

\* The tool most recently registered under a name
LastRegistered(name) ==
    LET last == CHOOSE i \in 1..Len(registered) :
                    /\ registered[i].name = name
                    /\ \A j \in (i + 1)..Len(registered) : registered[j].name # name
    IN registered[last]

\* C22: after any sequence of register calls the registry holds exactly one
\* tool per name: list_tools has no duplicate and lists the names registered,
\* each name resolves through get_tool to the tool most recently registered
\* under it, and get_tools_description has one {name, description,
\* parameters} entry per tool, in the order of list_tools.
C22_OneToolPerName ==
    LET names == list_tools(registry)
        described == get_tools_description(registry)
    IN /\ \A i, j \in 1..Len(names) : names[i] = names[j] => i = j
       /\ { names[i] : i \in 1..Len(names) } = { registered[i].name : i \in 1..Len(registered) }
       /\ \A i \in 1..Len(registered) :
             get_tool(registry, PyStr(registered[i].name)) = LastRegistered(registered[i].name).impl
       /\ Len(described) = Len(names)
       /\ \A i \in 1..Len(names) :
             described[i] = to_dict(LastRegistered(names[i]))

\* C22 witness: the read tool was replaced and a new tool registered twice:
\* more register calls than tools
C22_Witness ==
    /\ Len(registered) = Len(DefaultTools) + 3
    /\ Len(registry) = Len(DefaultTools) + 1
    /\ get_tool(registry, PyStr("read")) = "CachedReadTool"
    /\ get_tool(registry, PyStr("fetch")) = "CachedFetchTool"

\* Item e of a multi_edit applies on the filesystem f
ItemApplies(e, f, ioerr) ==
    /\ e["file_path"].t = "str"
    /\ e["file_path"].v \in AllPaths
    /\ f.files[e["file_path"].v].exists
    /\ e["old_text"].t = "str"
    /\ Contains(e["old_text"].v, f.files[e["file_path"].v].content)
    /\ e["new_text"].t = "str"
    /\ ~ioerr

\* The filesystem after the items are tried one after another, each on what
\* the one before left, an item that does not apply changing nothing
RECURSIVE EditsOutcome(_, _, _)
EditsOutcome(edits, f, ioerr) ==
    IF edits = <<>> THEN f
    ELSE LET e == Head(edits).v
             g == IF ItemApplies(e, f, ioerr)
                  THEN WriteFile(f, e["file_path"].v,
                                 Replace(f.files[e["file_path"].v].content,
                                         e["old_text"].v, e["new_text"].v))
                  ELSE f
         IN EditsOutcome(Tail(edits), g, ioerr)

\* C23: multi_edit attempts every item in listed order, also after an item
\* that failed with a missing file, a text not found or an I/O error: its log
\* has one line per item, in order; items on the same file are applied one
\* after another, each on the content the previous one left, and nothing is
\* rolled back.
C23_MultiEditSequential ==
    MultiEditReturned =>
        LET edits == calls[1].kw["edits"].v
            lines == results[1].content.lines
        IN /\ Len(lines) = Len(edits)
           /\ \A i \in 1..Len(edits) : lines[i].subject = edits[i].v["file_path"]
           /\ fs = EditsOutcome(edits, fsBefore, calls[1].env.ioerr)

\* C23 witness: two items on d/a.txt ("aba"), the second replacing what the
\* first one wrote: "aba" -> "bbbbb" -> "aab"
C23_Witness ==
    /\ MultiEditReturned
    /\ Len(calls[1].kw["edits"].v) = 2
    /\ results[1].metadata.successful_edits = 2
    /\ fsBefore.files[<<"d", "a.txt">>].content = <<"a", "b", "a">>
    /\ fs.files[<<"d", "a.txt">>].content = <<"a", "a", "b">>

\* C23 second witness: the first item fails on a text that is not there, the
\* second one is applied all the same
C23_WitnessAfterFailure ==
    /\ MultiEditReturned
    /\ Len(results[1].content.lines) = 2
    /\ results[1].content.lines[1].kind = "texto nao encontrado"
    /\ results[1].content.lines[2].kind = "editado"

\* A refactor call made by USE_TOOL returned from RefactorTool.execute
RefactorReturned ==
    /\ Done
    /\ handler = "USE_TOOL"
    /\ Len(calls) = 1
    /\ Len(results) = 1
    /\ calls[1].invoked = "RefactorTool"
    /\ results[1].metadata.kind = "refactor"

\* The operations of the returned refactor call whose rename substituted
\* something, as its log tells
Substituted ==
    { i \in 1..Len(results[1].content.lines) :
          /\ "replacements" \in DOMAIN results[1].content.lines[i]
          /\ results[1].content.lines[i].replacements > 0 }

\* C24: refactor returns success = true iff at least one rename operation
\* substituted something, and successful_operations counts exactly those: an
\* unsupported operation, a rename that finds nothing and a rename that hits
\* a file error are logged and not counted.
C24_RefactorCountsSubstitutions ==
    RefactorReturned =>
        /\ results[1].success <=> (Substituted # {})
        /\ results[1].metadata.successful_operations = Cardinality(Substituted)

\* The returned refactor call was one rename of a non-empty identifier in a
\* file that exists and can be written
RenameDone ==
    /\ RefactorReturned
    /\ Len(calls[1].kw["operations"].v) = 1
    /\ LET op == calls[1].kw["operations"].v[1].v IN
       /\ StrEq(op["type"], <<"r", "e", "n", "a", "m", "e">>)
       /\ {"old_name", "new_name"} \subseteq DOMAIN op
       /\ op["old_name"].t = "str"
       /\ op["old_name"].v # <<>>
       /\ op["new_name"].t = "str"
       /\ op["file_path"].t = "str"
       /\ op["file_path"].v \in AllPaths
       /\ fsBefore.files[op["file_path"].v].exists
    /\ ~calls[1].env.ioerr

\* The offsets of s at which old_name stands as a whole identifier
WholeOccurrences(s, old_name) ==
    { i \in 1..Len(s) :
        /\ i + Len(old_name) - 1 <= Len(s)
        /\ SubSeq(s, i, i + Len(old_name) - 1) = old_name
        /\ Boundary(s, i - 1)
        /\ Boundary(s, i + Len(old_name) - 1) }

\* s from offset i on, with new_name in the place of each whole-identifier
\* occurrence of old_name and every other character kept
RECURSIVE Renamed(_, _, _, _)
Renamed(s, i, old_name, new_name) ==
    IF i > Len(s) THEN <<>>
    ELSE IF i \in WholeOccurrences(s, old_name)
    THEN new_name \o Renamed(s, i + Len(old_name), old_name, new_name)
    ELSE <<s[i]>> \o Renamed(s, i + 1, old_name, new_name)

\* C25: a refactor rename replaces each whole-identifier occurrence of
\* old_name by new_name exactly once, leaves every other character of the file
\* as it was, and reports as many substitutions as old_name has
\* whole-identifier occurrences in the original content.
C25_RenameEachOccurrenceOnce ==
    RenameDone =>
        LET op == calls[1].kw["operations"].v[1].v
            path == op["file_path"].v
            original == fsBefore.files[path].content
        IN /\ fs.files[path].content = Renamed(original, 1, op["old_name"].v, op["new_name"].v)
           /\ results[1].content.lines[1].replacements
                  = Cardinality(WholeOccurrences(original, op["old_name"].v))

\* A backup call made by USE_TOOL returned from the loop of BackupTool.execute
BackupReturned ==
    /\ Done
    /\ handler = "USE_TOOL"
    /\ Len(calls) = 1
    /\ Len(results) = 1
    /\ calls[1].invoked = "BackupTool"
    /\ results[1].metadata.kind = "backup"

\* The listed files the returned backup call copied, as its log tells
Copied ==
    { i \in 1..Len(results[1].content.lines) :
          results[1].content.lines[i].kind = "copiado" }

\* C26: backup skips a listed file that does not exist and goes on with the
\* others: the log has one line per listed file, a missing file is not
\* copied, a file that exists is copied when the copy can be written;
\* success is true iff at least one file was copied and files_backed_up is
\* the number of files copied.
C26_BackupSkipsMissing ==
    BackupReturned =>
        LET files == calls[1].kw["files"].v
            lines == results[1].content.lines
        IN /\ Len(lines) = Len(files)
           /\ \A i \in 1..Len(files) :
                 /\ lines[i].subject = files[i]
                 /\ (files[i].t = "str" /\ ~PathExists(fsBefore, files[i].v))
                        => i \notin Copied
                 /\ (files[i].t = "str" /\ IsFile(fsBefore, files[i].v)
                        /\ ~calls[1].env.ioerr /\ "backup_dir" \notin DOMAIN calls[1].kw)
                        => i \in Copied
                 /\ i \in Copied => IsFile(fsBefore, files[i].v)
           /\ results[1].success <=> (Copied # {})
           /\ results[1].metadata.files_backed_up = Cardinality(Copied)

\* C26 witness: the first listed file is missing, the second one is copied
C26_Witness ==
    /\ BackupReturned
    /\ Len(calls[1].kw["files"].v) = 2
    /\ results[1].content.lines[1].kind = "nao encontrado"
    /\ Copied = {2}
    /\ results[1].success
    /\ results[1].metadata.files_backed_up = 1
    /\ fs # fsBefore

\* C27: after a backup call the backup directory holds, for every file
\* counted in files_backed_up, a copy under the file's base name whose
\* content is the content the file had, also when two listed files share a
\* base name.
C27_BackupHoldsEveryCopy ==
    BackupReturned =>
        \A i \in Copied :
            LET file_path == calls[1].kw["files"].v[i].v
                dst == Append(results[1].metadata.backup_dir, Basename(file_path))
            IN /\ IsFile(fs, dst)
               /\ fs.files[dst].content = fsBefore.files[file_path].content

\* The keys every item of a multi_edit is read by
EditKeys == {"file_path", "old_text", "new_text"}

\* The last handler made one multi_edit call of which item k is the first
\* that lacks a key, the items before it being complete
IncompleteItem(k) ==
    /\ Done
    /\ handler = "USE_TOOL"
    /\ Len(calls) = 1
    /\ Len(results) = 1
    /\ calls[1].invoked = "MultiEditTool"
    /\ calls[1].kw["edits"].t = "list"
    /\ k \in 1..Len(calls[1].kw["edits"].v)
    /\ \A i \in 1..k : calls[1].kw["edits"].v[i].t = "dict"
    /\ \A i \in 1..(k - 1) : EditKeys \subseteq DOMAIN calls[1].kw["edits"].v[i].v
    /\ ~(EditKeys \subseteq DOMAIN calls[1].kw["edits"].v[k].v)

\* C28: when an item of a multi_edit lacks one of the keys file_path,
\* old_text, new_text the batch stops at that item: the registry returns
\* success = false with an error and no metadata, the items after it are not
\* attempted, and what the items before it wrote stays on disk.
C28_IncompleteItemStopsBatch ==
    \A k \in 1..MaxEdits + 1 :
        IncompleteItem(k) =>
            /\ calls[1].escaped = "None"
            /\ ~results[1].success
            /\ results[1].error # NoError
            /\ results[1].metadata = NoMeta
            /\ fs = EditsOutcome(SubSeq(calls[1].kw["edits"].v, 1, k - 1), fsBefore,
                                 calls[1].env.ioerr)

\* C28 witness: the first item was applied, the second lacks new_text:
\* success = false and a modified file
C28_Witness ==
    /\ IncompleteItem(2)
    /\ ~results[1].success
    /\ fs # fsBefore

\* C28 second witness: the item after the incomplete one applies to the
\* file, which is left as it was
C28_WitnessNotAttempted ==
    /\ IncompleteItem(1)
    /\ Len(calls[1].kw["edits"].v) = 2
    /\ ItemApplies(calls[1].kw["edits"].v[2].v, fsBefore, calls[1].env.ioerr)
    /\ fs = fsBefore

\* The classes of the write, edit, bash and git_commit tools
MutatingTools == { "WriteTool", "EditTool", "BashTool", "GitCommitTool" }

\* C29: the handlers of USE_TOOL and MULTI_TOOL show no confirmation prompt
\* and read no answer: every tool they name is run through the registry
\* without the user having confirmed, write, edit, bash and git_commit
\* included.
C29_ToolDirectivesUnconfirmed ==
    (Done /\ handler \in {"USE_TOOL", "MULTI_TOOL"}) =>
        /\ answer = "-"
        /\ \A j \in 1..Len(trace) : trace[j].kind # "prompt"
        /\ Len(calls) = Cardinality({ j \in 1..Len(trace) : trace[j].kind = "call" })

\* C29 witness: a USE_TOOL directive ran one of the four tools, which wrote
\* a file or spawned a process, and no prompt was shown
C29_Witness ==
    /\ Done
    /\ handler = "USE_TOOL"
    /\ answer = "-"
    /\ Len(calls) = 1
    /\ calls[1].invoked \in MutatingTools
    /\ \A j \in 1..Len(trace) : trace[j].kind # "prompt"
    /\ (fs # fsBefore \/ spawned # <<>>)

\* A create_project call made by USE_TOOL returned from the loop of
\* CreateProjectTool.execute
CreateProjectReturned ==
    /\ Done
    /\ handler = "USE_TOOL"
    /\ Len(calls) = 1
    /\ Len(results) = 1
    /\ calls[1].invoked = "CreateProjectTool"
    /\ results[1].metadata.kind = "create_project"

\* Path p lies inside the directory root
Inside(root, p) == Len(p) > Len(root) /\ SubSeq(p, 1, Len(root)) = root

\* C30: every file create_project writes or creates lies inside the project
\* root named by project_name, whatever the path values of the files list
\* are: no file outside it is created or overwritten.
C30_CreateProjectStaysInside ==
    CreateProjectReturned =>
        LET root == calls[1].kw["project_name"].v IN
        /\ \A p \in AllPaths : fs.files[p] # fsBefore.files[p] => Inside(root, p)
        /\ \A i \in 1..Len(results[1].metadata.files) :
               Inside(root, results[1].metadata.files[i])

====
